---------------------------- MODULE Spec2Model ----------------------------
(***************************************************************************)
(* Model of the SimpleFinances analytics engine: the `stats` computation   *)
(* of src/src/App.tsx (lines 166-276), which turns the fetched snapshot    *)
(* of accounts and transactions into net worth, 30-day spending and the    *)
(* detected subscriptions.                                                 *)
(*                                                                         *)
(* Representation.                                                         *)
(*  - A string is a sequence of one-character strings.                     *)
(*  - A decimal string ("-120.00") is a record [neg, whole, frac] with     *)
(*    frac counted in 1/Scale of a unit; parseFloat maps it to a signed    *)
(*    integer number of 1/Scale units.  Sums and means are exact: IEEE     *)
(*    rounding of the additions is not modelled.                           *)
(*  - A raw `posted` number is a record [k, r] standing for k*1000 + r,    *)
(*    so that millisecond timestamps of today fit TLC's integers.  A       *)
(*    number of seconds (a normalized timestamp, `now`) is a record        *)
(*    [s, ms] standing for s + ms/1000.                                    *)
(*  - A mean is a record [num, den] standing for num/den.                  *)
(*  - Balances and amounts are decimal strings, as the SimpleFIN data      *)
(*    model gives them: a string parseFloat maps to NaN is not an input.   *)
(*  - spendingByAccount and subGroups are plain JavaScript objects used    *)
(*    as maps; they are modelled as functions.  Keys that collide with a   *)
(*    member of Object.prototype (such as "constructor") are not among     *)
(*    the account names and descriptions of the snapshots explored.        *)
(***************************************************************************)
EXTENDS Integers, Sequences, FiniteSets

VARIABLES
    data,       \* useState<SimpleFINData | null>: the loaded snapshot, or NoData
    now,        \* Date.now() / 1000 as read by the computation of stats (0: none read)
    stats,      \* the value of the useMemo: the report handed to the views
    locals,     \* locals of that computation (allTransactions, the account types,
                \* the isTransfer verdicts, subGroups) and the json it was handed
    app,        \* which App is running (1: lines 83-555, 2: lines 639-1132) and
                \* hasEnvConfig; fixed for the life of the page
    accessUrl,  \* useState<string | null>
    localStorage,  \* the value stored under 'simplefin_access_url', or Null
    search,     \* window.location.search
    setupToken, \* useState('')
    loading,    \* useState(false)
    error,      \* useState('')
    claims,     \* the POST /api/claim requests handleLogin is waiting for, oldest first
    fetches,    \* the fetchData calls that are waiting, oldest first
    event,      \* the handler or continuation that ran last
    loggedOut,  \* logout has run without env configuration, and no login since
    request     \* the request the server (Netlify function or Vite middleware)
                \* handled last, with what it has answered so far

sessionVars ==
    <<app, accessUrl, localStorage, search, setupToken, loading, error, claims, fetches,
      event, loggedOut>>

vars == <<data, now, stats, locals, sessionVars, request>>

NoData == [null |-> TRUE]

----------------------------------------------------------------------------
(* Characters and strings                                                  *)

UpperCase == <<"A","B","C","D","E","F","G","H","I","J","K","L","M","N","O","P","Q","R","S","T","U","V","W","X","Y","Z">>
LowerCase == <<"a","b","c","d","e","f","g","h","i","j","k","l","m","n","o","p","q","r","s","t","u","v","w","x","y","z">>

LowerOf ==
    [c \in {UpperCase[i] : i \in 1..26} |-> LowerCase[CHOOSE i \in 1..26 : UpperCase[i] = c]]

LowerLetters == {LowerCase[i] : i \in 1..26}

\* String.prototype.toLowerCase, one character
ToLowerChar(c) == IF c \in DOMAIN LowerOf THEN LowerOf[c] ELSE c

\* String.prototype.toLowerCase
ToLowerCase(str) == [i \in 1..Len(str) |-> ToLowerChar(str[i])]

\* String.prototype.includes
Includes(str, sub) ==
    \E i \in 1..(Len(str) - Len(sub) + 1) : \A j \in 1..Len(sub) : str[i + j - 1] = sub[j]

KW_checking == <<"c","h","e","c","k","i","n","g">>
KW_spending == <<"s","p","e","n","d","i","n","g">>
KW_savings == <<"s","a","v","i","n","g","s">>
KW_reserve == <<"r","e","s","e","r","v","e">>
KW_credit == <<"c","r","e","d","i","t">>
KW_card == <<"c","a","r","d">>
KW_visa == <<"v","i","s","a">>
KW_amex == <<"a","m","e","x">>
KW_mastercard == <<"m","a","s","t","e","r","c","a","r","d">>
KW_investment == <<"i","n","v","e","s","t","m","e","n","t">>
KW_brokerage == <<"b","r","o","k","e","r","a","g","e">>
KW_ira == <<"i","r","a">>
KW_401k == <<"4","0","1","k">>

\* Mutant: the credit-card keywords are looked for before the savings keywords.
AccountTypeOf_CardBeforeSavings(name) ==
    LET n == ToLowerCase(name) IN
    IF Includes(n, KW_checking) \/ Includes(n, KW_spending) THEN "Checking"
    ELSE IF Includes(n, KW_credit) \/ Includes(n, KW_card) \/ Includes(n, KW_visa)
            \/ Includes(n, KW_amex) \/ Includes(n, KW_mastercard) THEN "Credit Card"
    ELSE IF Includes(n, KW_savings) \/ Includes(n, KW_reserve) THEN "Savings"
    ELSE IF Includes(n, KW_investment) \/ Includes(n, KW_brokerage)
            \/ Includes(n, KW_ira) \/ Includes(n, KW_401k) THEN "Investment"
    ELSE "Other"

AccountTypeOf(name) ==
    LET n == ToLowerCase(name) IN
    IF Includes(n, KW_checking) \/ Includes(n, KW_spending) THEN "Checking"
    ELSE IF Includes(n, KW_savings) \/ Includes(n, KW_reserve) THEN "Savings"
    ELSE IF Includes(n, KW_credit) \/ Includes(n, KW_card) \/ Includes(n, KW_visa)
            \/ Includes(n, KW_amex) \/ Includes(n, KW_mastercard) THEN "Credit Card"
    ELSE IF Includes(n, KW_investment) \/ Includes(n, KW_brokerage)
            \/ Includes(n, KW_ira) \/ Includes(n, KW_401k) THEN "Investment"
    ELSE "Other"

\* The account names of the input families below, with their types worked
\* out once: AccountTypeCache holds AccountTypeOf(n) and nothing else.
N_TotalChecking == <<"T","o","t","a","l"," ","C","h","e","c","k","i","n","g">>
N_PlatinumCard == <<"P","l","a","t","i","n","u","m"," ","C","a","r","d">>
N_Wallet == <<"W","a","l","l","e","t">>
AccountNames == {N_TotalChecking, N_PlatinumCard, N_Wallet}
AccountTypeCache == [n \in AccountNames |-> AccountTypeOf(n)]

getAccountType(name) ==
    IF name \in DOMAIN AccountTypeCache THEN AccountTypeCache[name] ELSE AccountTypeOf(name)

----------------------------------------------------------------------------
(* Numbers                                                                 *)

\* Units per 1.0 of a parsed amount (four decimal places are kept).
Scale == 10000

Abs(x) == IF x < 0 THEN -x ELSE x

\* parseFloat of a decimal string
parseFloat(s) == (IF s.neg THEN -1 ELSE 1) * (s.whole * Scale + s.frac)

\* t.posted > 2000000000 ? t.posted / 1000 : t.posted
MsThreshold == 2000000000

\* Mutant: 2,000,000,000 itself is taken for milliseconds.
PostedIsMillis_FromThreshold(p) == p.k >= MsThreshold \div 1000

PostedIsMillis(p) ==
    \/ p.k > MsThreshold \div 1000
    \/ p.k = MsThreshold \div 1000 /\ p.r > MsThreshold % 1000

NormalizePosted(p) ==
    IF PostedIsMillis(p)
    THEN [s |-> p.k, ms |-> p.r]
    ELSE [s |-> p.k * 1000 + p.r, ms |-> 0]

\* a >= b on seconds
SecondsGeq(a, b) == a.s > b.s \/ (a.s = b.s /\ a.ms >= b.ms)

\* Math.abs(a - b) in milliseconds.  Differences of more than 2,000,000 s
\* are reported as 2,000,000 s: every window of the program is far shorter.
AbsDiffMillis(a, b) ==
    LET ds == a.s - b.s
        far == 2000 * 1000
    IN  IF Abs(ds) > far THEN far * 1000 ELSE Abs(ds * 1000 + (a.ms - b.ms))

----------------------------------------------------------------------------
(* stats: balance aggregation (App.tsx 192-205)                            *)

\* Mutant: a credit-card balance is subtracted with its sign.
AddBalance_SignedDebt(acc, st) ==
    LET bal == parseFloat(acc.balance) IN
    IF getAccountType(acc.name) = "Credit Card"
    THEN [netWorth |-> st.netWorth - bal,
          assets |-> st.assets,
          liabilities |-> st.liabilities + bal]
    ELSE [netWorth |-> st.netWorth + bal,
          assets |-> IF bal > 0 THEN st.assets + bal ELSE st.assets,
          liabilities |-> IF bal > 0 THEN st.liabilities ELSE st.liabilities + Abs(bal)]

\* Mutant: a credit-card account is treated like any other account.
AddBalance_NoCardRule(acc, st) ==
    LET bal == parseFloat(acc.balance) IN
    [netWorth |-> st.netWorth + bal,
     assets |-> IF bal > 0 THEN st.assets + bal ELSE st.assets,
     liabilities |-> IF bal > 0 THEN st.liabilities ELSE st.liabilities + Abs(bal)]

\* Mutant: a negative balance of another account is added to liabilities as it is.
AddBalance_NoAbs(acc, st) ==
    LET bal == parseFloat(acc.balance) IN
    IF getAccountType(acc.name) = "Credit Card"
    THEN [netWorth |-> st.netWorth - Abs(bal),
          assets |-> st.assets,
          liabilities |-> st.liabilities + Abs(bal)]
    ELSE [netWorth |-> st.netWorth + bal,
          assets |-> IF bal > 0 THEN st.assets + bal ELSE st.assets,
          liabilities |-> IF bal > 0 THEN st.liabilities ELSE st.liabilities + bal]

AddBalance(acc, st) ==
    LET bal  == parseFloat(acc.balance)
        type == getAccountType(acc.name)
    IN  IF type = "Credit Card"
        THEN LET owe == Abs(bal) IN
             [netWorth |-> st.netWorth - owe,
              assets |-> st.assets,
              liabilities |-> st.liabilities + owe]
        ELSE [netWorth |-> st.netWorth + bal,
              assets |-> IF bal > 0 THEN st.assets + bal ELSE st.assets,
              liabilities |-> IF bal > 0 THEN st.liabilities
                                         ELSE st.liabilities + Abs(bal)]

RECURSIVE AggregateBalances(_, _, _)
AggregateBalances(accounts, i, st) ==
    IF i > Len(accounts) THEN st
    ELSE AggregateBalances(accounts, i + 1, AddBalance(accounts[i], st))

----------------------------------------------------------------------------
(* stats: allTransactions (App.tsx 178-190)                                *)

NormalizeTx(acc, t) ==
    [id          |-> t.id,
     amount      |-> t.amount,
     description |-> t.description,
     posted      |-> NormalizePosted(t.posted),
     accountId   |-> acc.id,
     amountNum   |-> parseFloat(t.amount),
     accountName |-> acc.name]

\* Mutant: the computed fields are written into t itself.
TxAfterSpread_Assign(acc, t) == NormalizeTx(acc, t)

\* { ...t, posted, accountId, amountNum, accountName } is a new object: the
\* transaction t of the snapshot is read, and is afterwards what it was.
TxAfterSpread(acc, t) == t

\* acc.transactions || []
TransactionsOf(acc) == IF "transactions" \in DOMAIN acc THEN acc.transactions ELSE <<>>

RECURSIVE AllTransactions(_, _)
AllTransactions(accounts, i) ==
    IF i > Len(accounts) THEN <<>>
    ELSE LET acc == accounts[i]
             txs == TransactionsOf(acc)
         IN  [j \in 1..Len(txs) |-> NormalizeTx(acc, txs[j])]
             \o AllTransactions(accounts, i + 1)

\* The snapshot as the computation leaves it.  Its objects are reached by
\* the flatMap and map callbacks (178-190) and by the forEach callback
\* (192-205), which read acc.id, acc.name, acc.balance and acc.transactions;
\* map and flatMap build new arrays, and the arrays that are pushed to and
\* sorted in place further down (subGroups[norm].transactions,
\* rawSubscriptions, subscriptions) are created by the computation.
AccountAfter(acc) ==
    IF "transactions" \in DOMAIN acc
    THEN [acc EXCEPT !.transactions =
             [j \in 1..Len(acc.transactions) |-> TxAfterSpread(acc, acc.transactions[j])]]
    ELSE acc

DataAfter(d) == [accounts |-> [a \in 1..Len(d.accounts) |-> AccountAfter(d.accounts[a])]]

----------------------------------------------------------------------------
(* stats: isTransfer (App.tsx 207-213)                                     *)

TransferWindow == 259200

AmountsCancel(a, b) == Abs(a + b) < Scale \div 1000

\* Mutant: the other transaction must be in another account.
isTransfer_OtherAccount(t, allTransactions) ==
    \E i \in 1..Len(allTransactions) :
        LET other == allTransactions[i] IN
        /\ other.id # t.id
        /\ other.accountId # t.accountId
        /\ AmountsCancel(other.amountNum, t.amountNum)
        /\ AbsDiffMillis(other.posted, t.posted) < TransferWindow * 1000

\* Mutant: the window test is <= instead of <.
isTransfer_InclusiveWindow(t, allTransactions) ==
    \E i \in 1..Len(allTransactions) :
        LET other == allTransactions[i] IN
        /\ other.id # t.id
        /\ AmountsCancel(other.amountNum, t.amountNum)
        /\ AbsDiffMillis(other.posted, t.posted) <= TransferWindow * 1000

\* Mutant: only a debit is ever looked up.
isTransfer_OnlyDebits(t, allTransactions) ==
    /\ t.amountNum < 0
    /\ \E i \in 1..Len(allTransactions) :
          LET other == allTransactions[i] IN
          /\ other.id # t.id
          /\ AmountsCancel(other.amountNum, t.amountNum)
          /\ AbsDiffMillis(other.posted, t.posted) < TransferWindow * 1000

isTransfer(t, allTransactions) ==
    \E i \in 1..Len(allTransactions) :
        LET other == allTransactions[i] IN
        /\ other.id # t.id
        /\ AmountsCancel(other.amountNum, t.amountNum)
        /\ AbsDiffMillis(other.posted, t.posted) < TransferWindow * 1000

----------------------------------------------------------------------------
(* stats: the grouping key of a description (App.tsx 225-230)              *)

IsLowerLetter(c) == c \in LowerLetters
IsSpace(c) == c \in {" ", "\t", "\n"}

\* Mutant: the other characters are deleted.
BlankNonLetters_Delete(str) ==
    SelectSeq(str, LAMBDA c : IsLowerLetter(c) \/ IsSpace(c))

\* .replace(/[^a-z\s]/g, ' ')
BlankNonLetters(str) ==
    [i \in 1..Len(str) |-> IF IsLowerLetter(str[i]) \/ IsSpace(str[i]) THEN str[i] ELSE " "]

\* .replace(/\s+/g, ' ')
RECURSIVE CollapseSpaces(_)
CollapseSpaces(str) ==
    IF str = <<>> THEN <<>>
    ELSE IF IsSpace(Head(str))
         THEN IF Len(str) > 1 /\ IsSpace(str[2])
              THEN CollapseSpaces(Tail(str))
              ELSE <<" ">> \o CollapseSpaces(Tail(str))
         ELSE <<Head(str)>> \o CollapseSpaces(Tail(str))

\* .trim()
RECURSIVE Trim(_)
Trim(str) ==
    IF str = <<>> THEN <<>>
    ELSE IF IsSpace(Head(str)) THEN Trim(Tail(str))
    ELSE IF IsSpace(str[Len(str)]) THEN Trim(SubSeq(str, 1, Len(str) - 1))
    ELSE str

\* .split(' '): the pieces between single spaces, empty pieces included
RECURSIVE Split(_, _)
Split(str, piece) ==
    IF str = <<>> THEN <<piece>>
    ELSE IF Head(str) = " " THEN <<piece>> \o Split(Tail(str), <<>>)
    ELSE Split(Tail(str), Append(piece, Head(str)))

KW_the == <<"t","h","e">>
KW_inc == <<"i","n","c">>
KW_com == <<"c","o","m">>
KW_payment == <<"p","a","y","m","e","n","t">>
StopWords == {KW_the, KW_inc, KW_com, KW_payment}

\* .filter(w => w.length > 2 && !stopwords.includes(w))
KeepWord(w) == Len(w) > 2 /\ w \notin StopWords

\* .join(' ')
RECURSIVE Join(_)
Join(words) ==
    IF words = <<>> THEN <<>>
    ELSE IF Len(words) = 1 THEN words[1]
    ELSE words[1] \o <<" ">> \o Join(Tail(words))

CleanDesc(description) == Trim(CollapseSpaces(BlankNonLetters(ToLowerCase(description))))

Words(description) == SelectSeq(Split(CleanDesc(description), <<>>), KeepWord)

NormOf(description) ==
    LET words == Words(description) IN
    Join(SubSeq(words, 1, IF Len(words) < 2 THEN Len(words) ELSE 2))

\* The descriptions of the input families below, with their keys worked out
\* once: NormCache holds NormOf(d) and nothing else.
D_WholeFoodsMarket == <<"W","h","o","l","e"," ","F","o","o","d","s"," ","M","a","r","k","e","t">>
D_WholeFoodsStore == <<"W","H","O","L","E"," ","F","O","O","D","S"," ","#","4","5","2","1">>
D_Netflix == <<"N","E","T","F","L","I","X",".","C","O","M">>
\* "SVC AAA", "SVC BBB", ...: one description per letter, each with its own key
D_Service(g) == <<"S","V","C"," ">> \o <<UpperCase[g], UpperCase[g], UpperCase[g]>>
Descriptions ==
    {D_WholeFoodsMarket, D_WholeFoodsStore, D_Netflix} \cup {D_Service(g) : g \in 1..26}
NormCache == [d \in Descriptions |-> NormOf(d)]

Norm(description) ==
    IF description \in DOMAIN NormCache THEN NormCache[description] ELSE NormOf(description)

----------------------------------------------------------------------------
(* stats: the pass over allTransactions (App.tsx 215-237)                  *)

SpendWindow == 30 * 24 * 60 * 60

\* now - 30 * 24 * 60 * 60
MonthAgo(nw) == [s |-> nw.s - SpendWindow, ms |-> nw.ms]

\* Mutant: transfers are not filtered out of the spending.
CountsAsSpend_WithTransfers(t, allTransactions, monthAgo) ==
    /\ SecondsGeq(t.posted, monthAgo)
    /\ t.amountNum < 0

\* Mutant: a transaction posted exactly 30 days ago is left out.
CountsAsSpend_StrictWindow(t, allTransactions, monthAgo) ==
    /\ ~SecondsGeq(monthAgo, t.posted)
    /\ t.amountNum < 0
    /\ ~isTransfer(t, allTransactions)

\* t.posted >= monthAgo && amt < 0 && !isTransfer(t)
CountsAsSpend(t, allTransactions, monthAgo) ==
    /\ SecondsGeq(t.posted, monthAgo)
    /\ t.amountNum < 0
    /\ ~isTransfer(t, allTransactions)

\* Mutant: transfers are not filtered out of the groups.
IsCharge_WithTransfers(t, allTransactions) == t.amountNum < 0

\* Mutant: the sign of the amount is not looked at.
IsCharge_AnySign(t, allTransactions) == ~isTransfer(t, allTransactions)

\* Mutant: a zero amount is taken for a charge.
IsCharge_NonPositive(t, allTransactions) ==
    t.amountNum <= 0 /\ ~isTransfer(t, allTransactions)

\* amt < 0 && !isTransfer(t)
IsCharge(t, allTransactions) == t.amountNum < 0 /\ ~isTransfer(t, allTransactions)

\* Mutant: the entry is overwritten instead of added to.
AddToAccount_Overwrite(byAccount, name, x) ==
    [n \in DOMAIN byAccount \cup {name} |-> IF n = name THEN x ELSE byAccount[n]]

\* spendingByAccount[name] = (spendingByAccount[name] || 0) + x
AddToAccount(byAccount, name, x) ==
    [n \in DOMAIN byAccount \cup {name} |->
        IF n = name
        THEN (IF name \in DOMAIN byAccount THEN byAccount[name] ELSE 0) + x
        ELSE byAccount[n]]

\* if (!subGroups[norm]) subGroups[norm] = { transactions: [] };
\* subGroups[norm].transactions.push(t)
PushToGroup(subGroups, norm, t) ==
    IF \E g \in 1..Len(subGroups) : subGroups[g].norm = norm
    THEN [g \in 1..Len(subGroups) |->
            IF subGroups[g].norm = norm
            THEN [subGroups[g] EXCEPT !.transactions = Append(@, t)]
            ELSE subGroups[g]]
    ELSE Append(subGroups, [norm |-> norm, transactions |-> <<t>>])

VisitTx(t, allTransactions, monthAgo, acc) ==
    LET amt   == t.amountNum
        spent == CountsAsSpend(t, allTransactions, monthAgo)
        norm  == Norm(t.description)
    IN  [spending30d |->
            IF spent THEN acc.spending30d + Abs(amt) ELSE acc.spending30d,
         spendingByAccount |->
            IF spent THEN AddToAccount(acc.spendingByAccount, t.accountName, Abs(amt))
                     ELSE acc.spendingByAccount,
         subGroups |->
            IF IsCharge(t, allTransactions) /\ Len(norm) >= 3
            THEN PushToGroup(acc.subGroups, norm, t)
            ELSE acc.subGroups]

RECURSIVE VisitAll(_, _, _, _)
VisitAll(allTransactions, i, monthAgo, acc) ==
    IF i > Len(allTransactions) THEN acc
    ELSE VisitAll(allTransactions, i + 1, monthAgo,
                  VisitTx(allTransactions[i], allTransactions, monthAgo, acc))

----------------------------------------------------------------------------
(* stats: rawSubscriptions (App.tsx 239-257)                               *)

\* Array.prototype.sort is stable: x goes before the first element it must
\* precede (before holds the indexes of those), after every element it ties with.
InsertStable(x, sorted, before) ==
    IF before = {} THEN Append(sorted, x)
    ELSE LET p == CHOOSE i \in before : \A j \in before : i <= j
         IN  SubSeq(sorted, 1, p - 1) \o <<x>> \o SubSeq(sorted, p, Len(sorted))

\* Mutant: a transaction also goes before those posted at the same time.
PostedLater_OrSame(a, b) == SecondsGeq(a.posted, b.posted)

\* (a, b) => b.posted - a.posted is negative: a is the later one
PostedLater(a, b) == ~SecondsGeq(b.posted, a.posted)

RECURSIVE SortByPostedDesc(_)
SortByPostedDesc(txs) ==
    IF txs = <<>> THEN <<>>
    ELSE LET x      == txs[Len(txs)]
             sorted == SortByPostedDesc(SubSeq(txs, 1, Len(txs) - 1))
         IN  InsertStable(x, sorted, {i \in 1..Len(sorted) : PostedLater(x, sorted[i])})

RECURSIVE SumSeq(_)
SumSeq(xs) == IF xs = <<>> THEN 0 ELSE Head(xs) + SumSeq(Tail(xs))

\* Mutant: only the percentage test is made.
AmountNearAvg_PercentOnly(a, sum, n) == sum # 0 /\ 10 * Abs(a * n - sum) < 3 * sum

\* Math.abs(a - avg) / avg < 0.3 || Math.abs(a - avg) < 10, with avg = sum / n.
\* A zero avg makes the quotient NaN or Infinity, and the comparison false.
AmountNearAvg(a, sum, n) ==
    \/ sum # 0 /\ 10 * Abs(a * n - sum) < 3 * sum
    \/ Abs(a * n - sum) < 10 * Scale * n

SpreadMin == 5 * 24 * 60 * 60

\* Mutant: a gap of exactly 5 days counts as a spread.
HasTimeSpread_Inclusive(txs) ==
    AbsDiffMillis(txs[1].posted, txs[Len(txs)].posted) >= SpreadMin * 1000

\* Math.abs(txs[0].posted - txs[txs.length - 1].posted) > 5 * 24 * 60 * 60
HasTimeSpread(txs) == AbsDiffMillis(txs[1].posted, txs[Len(txs)].posted) > SpreadMin * 1000

\* avg > 1
AvgAboveOne(sum, n) == sum > Scale * n

\* One entry of Object.entries(subGroups): the locals of the callback.
EvaluateGroup(group) ==
    LET txs     == SortByPostedDesc(group.transactions)
        amounts == [i \in 1..Len(txs) |-> Abs(txs[i].amountNum)]
        sum     == SumSeq(amounts)
        n       == Len(amounts)
        longEnough == Len(txs) >= 2
        consistentAmount ==
            longEnough /\ \A i \in 1..n : AmountNearAvg(amounts[i], sum, n)
        hasTimeSpread == longEnough /\ HasTimeSpread(txs)
    IN  [norm |-> group.norm,
         transactions |-> txs,
         evaluated |-> longEnough,
         avg |-> [num |-> sum, den |-> n],
         consistentAmount |-> consistentAmount,
         hasTimeSpread |-> hasTimeSpread,
         pushed |-> consistentAmount /\ hasTimeSpread /\ AvgAboveOne(sum, n)]

\* rawSubscriptions.push({ desc, amount, count, norm })
RawSubscription(g) ==
    [desc |-> g.transactions[1].description,
     amount |-> g.avg,
     count |-> Len(g.transactions),
     norm |-> g.norm]

RECURSIVE RawSubscriptions(_, _)
RawSubscriptions(groups, i) ==
    IF i > Len(groups) THEN <<>>
    ELSE (IF groups[i].pushed THEN <<RawSubscription(groups[i])>> ELSE <<>>)
         \o RawSubscriptions(groups, i + 1)

----------------------------------------------------------------------------
(* stats: de-duplication, ordering and the cap (App.tsx 259-275)           *)

\* (a, b) => b.count - a.count is negative
CountHigher(a, b) == a.count > b.count

RECURSIVE SortByCountDesc(_)
SortByCountDesc(subs) ==
    IF subs = <<>> THEN <<>>
    ELSE LET x      == subs[Len(subs)]
             sorted == SortByCountDesc(SubSeq(subs, 1, Len(subs) - 1))
         IN  InsertStable(x, sorted, {i \in 1..Len(sorted) : CountHigher(x, sorted[i])})

\* Mutant: the entries seen are remembered by their count.
RECURSIVE DedupByNorm_ByCount(_, _, _)
DedupByNorm_ByCount(subs, i, seenNorms) ==
    IF i > Len(subs) THEN <<>>
    ELSE IF subs[i].count \in seenNorms
         THEN DedupByNorm_ByCount(subs, i + 1, seenNorms)
         ELSE <<subs[i]>> \o DedupByNorm_ByCount(subs, i + 1, seenNorms \cup {subs[i].count})

\* the seenNorms pass: the first entry of each norm is kept
RECURSIVE DedupByNorm(_, _, _)
DedupByNorm(subs, i, seenNorms) ==
    IF i > Len(subs) THEN <<>>
    ELSE IF subs[i].norm \in seenNorms
         THEN DedupByNorm(subs, i + 1, seenNorms)
         ELSE <<subs[i]>> \o DedupByNorm(subs, i + 1, seenNorms \cup {subs[i].norm})

\* (a, b) => b.amount - a.amount is negative
AmountHigher(a, b) == a.amount.num * b.amount.den > b.amount.num * a.amount.den

RECURSIVE SortByAmountDesc(_)
SortByAmountDesc(subs) ==
    IF subs = <<>> THEN <<>>
    ELSE LET x      == subs[Len(subs)]
             sorted == SortByAmountDesc(SubSeq(subs, 1, Len(subs) - 1))
         IN  InsertStable(x, sorted, {i \in 1..Len(sorted) : AmountHigher(x, sorted[i])})

MaxSubscriptions == 20

\* Mutant: the list is not cut.
TopSubscriptions_Uncapped(subs) == subs

\* .slice(0, 20)
TopSubscriptions(subs) ==
    SubSeq(subs, 1, IF Len(subs) < MaxSubscriptions THEN Len(subs) ELSE MaxSubscriptions)

----------------------------------------------------------------------------
(* stats (App.tsx 166-276)                                                 *)

\* Mutant: without data there is no report at all.
DefaultStats_NoReport == [null |-> TRUE]

\* if (!data) return { netWorth: 0, ... }
DefaultStats ==
    [netWorth |-> 0, assets |-> 0, liabilities |-> 0, spending30d |-> 0,
     spendingByAccount |-> <<>>, subscriptions |-> <<>>]

NoLocals ==
    [allTransactions |-> <<>>, types |-> <<>>, transfer |-> <<>>, subGroups |-> <<>>,
     rawSubscriptions |-> <<>>, subscriptions |-> <<>>, json |-> NoData]

\* The report, the locals of the computation that the properties read, and
\* the snapshot as the computation leaves it.
ComputeStats(d, nw) ==
    LET allTransactions == AllTransactions(d.accounts, 1)
        balances == AggregateBalances(d.accounts, 1,
                        [netWorth |-> 0, assets |-> 0, liabilities |-> 0])
        pass == VisitAll(allTransactions, 1, MonthAgo(nw),
                    [spending30d |-> 0, spendingByAccount |-> <<>>, subGroups |-> <<>>])
        groups == [g \in 1..Len(pass.subGroups) |-> EvaluateGroup(pass.subGroups[g])]
        rawSubscriptions == RawSubscriptions(groups, 1)
        subscriptions == DedupByNorm(SortByCountDesc(rawSubscriptions), 1, {})
    IN  [stats |->
            [netWorth |-> balances.netWorth,
             assets |-> balances.assets,
             liabilities |-> balances.liabilities,
             spending30d |-> pass.spending30d,
             spendingByAccount |-> pass.spendingByAccount,
             subscriptions |-> TopSubscriptions(SortByAmountDesc(subscriptions))],
         data |-> DataAfter(d),
         locals |->
            [allTransactions |-> allTransactions,
             types |-> [a \in 1..Len(d.accounts) |-> getAccountType(d.accounts[a].name)],
             json |-> d,
             transfer |-> [i \in 1..Len(allTransactions) |->
                              isTransfer(allTransactions[i], allTransactions)],
             subGroups |-> groups,
             rawSubscriptions |-> rawSubscriptions,
             subscriptions |-> subscriptions]]

----------------------------------------------------------------------------
(* The component: data, and stats recomputed when data changes             *)

Null == "null"
NoRequest == [pc |-> "none"]
NoQuery == ""
DemoQuery == "?demo=true"

\* The component as constructed: the useState initial values, for the App
\* and configuration given, the query string and the stored access URL
Constructed(variant, hasEnvConfig, query, stored) ==
    /\ data = NoData
    /\ now = [s |-> 0, ms |-> 0]
    /\ stats = DefaultStats
    /\ locals = NoLocals
    /\ app = [variant |-> variant, hasEnvConfig |-> hasEnvConfig]
    /\ localStorage = stored
    /\ accessUrl = stored
    /\ search = query
    /\ setupToken = ""
    /\ loading = FALSE
    /\ error = ""
    /\ claims = <<>>
    /\ fetches = <<>>
    /\ event = "init"
    /\ loggedOut = FALSE
    /\ request = NoRequest

\* The page of the analytics specifications: the first App, configured
\* with VITE_SIMPLEFIN_ACCESS_URL, nothing stored, no query string.  Their
\* Fetch actions hand snapshots to setData directly; the requests are the
\* subject of SpecSession.
Init == Constructed(1, TRUE, NoQuery, Null)

\* setData(json) of the fetch effect, and the render that follows it: the
\* useMemo recomputes stats from the new data, reading Date.now() = clock.
SetData(json, clock) ==
    /\ now' = [s |-> clock.k, ms |-> clock.r]
    /\ LET r == ComputeStats(json, now') IN
       /\ data' = r.data
       /\ stats' = r.stats
       /\ locals' = r.locals

\* A snapshot arrives outside the session model
Loads(json, clock) ==
    /\ SetData(json, clock)
    /\ event' = "fetched"
    /\ UNCHANGED <<request, app, accessUrl, localStorage, search, setupToken, loading, error,
                   claims, fetches, loggedOut>>

\* const useDummy = new URLSearchParams(window.location.search).get('demo') === 'true'
useDummy(query) == query = DemoQuery

\* if (!accessUrl && !hasEnvConfig && !useDummy) return;
EffectReturns(url, query) == url = Null /\ ~app.hasEnvConfig /\ ~useDummy(query)

\* Where the data of a fetchData call comes from: getDummyData, or the
\* access URL /api/accounts forwards to (the configured one, else the
\* x-simplefin-url header)
EnvUrl == "env"
SourceOf(url, query) ==
    IF useDummy(query) THEN "demo" ELSE IF app.hasEnvConfig THEN EnvUrl ELSE url

\* The effect on [accessUrl], run after a render in which accessUrl became
\* url: fetchData up to its first await.  wasLoading is the value of
\* loading the handler left.
Effect(url, query, wasLoading) ==
    IF url = accessUrl \/ EffectReturns(url, query)
    THEN /\ fetches' = fetches
         /\ loading' = wasLoading
    ELSE /\ fetches' = Append(fetches, [source |-> SourceOf(url, query),
                                         loggedOut |-> loggedOut'])
         /\ loading' = TRUE

\* if (window.location.search) window.history.replaceState({}, '', pathname):
\* only the second App
SearchAfterLogout == IF app.variant = 2 THEN NoQuery ELSE search

\* Mutant: the stored access URL is left in place.
logout_KeepsStored ==
    /\ localStorage' = localStorage
    /\ accessUrl' = Null
    /\ data' = NoData /\ stats' = DefaultStats /\ locals' = NoLocals
    /\ now' = [s |-> 0, ms |-> 0]
    /\ search' = SearchAfterLogout
    /\ loggedOut' = ~app.hasEnvConfig
    /\ event' = "logout"
    /\ Effect(Null, search', loading)
    /\ UNCHANGED <<request, app, setupToken, error, claims>>

\* logout, the render that follows it (stats is recomputed from no data)
\* and the effect if accessUrl changed
logout ==
    /\ localStorage' = Null
    /\ accessUrl' = Null
    /\ data' = NoData /\ stats' = DefaultStats /\ locals' = NoLocals
    /\ now' = [s |-> 0, ms |-> 0]
    /\ search' = SearchAfterLogout
    /\ loggedOut' = ~app.hasEnvConfig
    /\ event' = "logout"
    /\ Effect(Null, search', loading)
    /\ UNCHANGED <<request, app, setupToken, error, claims>>

\* logout of the loaded dashboard
Logout ==
    /\ data # NoData
    /\ logout

----------------------------------------------------------------------------
(* Input families                                                          *)

Dec(neg, whole, frac) == [neg |-> neg, whole |-> whole, frac |-> frac]


AccountIds == <<"1", "2", "3", "4", "5">>
TxIds == <<"t1", "t2", "t3", "t4", "t5", "t6">>

RemoveAt(seq, i) == SubSeq(seq, 1, i - 1) \o SubSeq(seq, i + 1, Len(seq))

\* Sequences over S of length at most n
SeqsUpTo(S, n) == UNION {[1..m -> S] : m \in 0..n}

\* --- balances: up to MaxAccounts accounts, no transactions
MaxAccounts == 3

BalanceNames == AccountNames
BalanceValues == {Dec(FALSE, 1250, 0), Dec(TRUE, 1250, 0), Dec(FALSE, 300, 5000), Dec(TRUE, 40, 0)}

BalanceSnapshots ==
    {[accounts |-> [i \in 1..Len(picks) |->
                      [id |-> AccountIds[i], name |-> picks[i][1],
                       balance |-> picks[i][2], transactions |-> <<>>]]] :
        picks \in SeqsUpTo(BalanceNames \X BalanceValues, MaxAccounts)}

Clock0 == [k |-> 1762000000, r |-> 0]

\* The fetch effect runs once per session: data is null when it resolves.
FetchBalances ==
    /\ data = NoData
    /\ \E json \in BalanceSnapshots : Loads(json, Clock0)

NextNetWorth == FetchBalances \/ Logout
SpecNetWorth == Init /\ [][NextNetWorth]_vars

\* --- spending: three accounts, two of them with the same name, and up to
\* MaxSpendTx transactions dealt to them in turn; transaction ids are unique
\* within an account and repeat across accounts.
MaxSpendTx == 3

SpendAccounts ==
    <<[id |-> "1", name |-> N_TotalChecking, balance |-> Dec(FALSE, 5240, 5000)],
      [id |-> "2", name |-> N_PlatinumCard, balance |-> Dec(FALSE, 1250, 0)],
      [id |-> "3", name |-> N_TotalChecking, balance |-> Dec(FALSE, 25000, 0)]>>

SlotAccount(i) == ((i - 1) % 3) + 1
SlotTxId(i) == TxIds[((i - 1) % 2) + 1]

\* -100.00, +100.0005 (cancels -100.00 within 0.001), +100.0010 (does not)
SpendAmounts == {Dec(TRUE, 100, 0), Dec(FALSE, 100, 5), Dec(FALSE, 100, 10)}

\* 1761913600 s; 259200 s before it, in seconds; 259199.5 s before it, in milliseconds
PostedDay == [k |-> 1761913, r |-> 600]
PostedThreeDaysBefore == [k |-> 1761654, r |-> 400]
PostedJustWithin == [k |-> 1761654400, r |-> 500]
SpendPosted == {PostedDay, PostedThreeDaysBefore, PostedJustWithin}

\* Date.now() exactly 30 days after PostedThreeDaysBefore, and 1 ms later
ClockAtEdge == [k |-> 1764246400, r |-> 0]
ClockPastEdge == [k |-> 1764246400, r |-> 1]
SpendClocks == {ClockAtEdge, ClockPastEdge}

Absent == <<>>

SlotChoices(amounts, posteds) == {Absent} \cup (amounts \X posteds)

\* The transactions of account a: the filled slots dealt to it, in slot order
SlotTransactions(fill, a, description) ==
    LET mine == SelectSeq([i \in 1..Len(fill) |-> i],
                          LAMBDA i : SlotAccount(i) = a /\ fill[i] # Absent)
    IN  [j \in 1..Len(mine) |->
            [id |-> SlotTxId(mine[j]), posted |-> fill[mine[j]][2],
             amount |-> fill[mine[j]][1], description |-> description,
             memo |-> <<>>]]

SpendSnapshots ==
    {[accounts |-> [a \in 1..Len(SpendAccounts) |->
                      [id |-> SpendAccounts[a].id, name |-> SpendAccounts[a].name,
                       balance |-> SpendAccounts[a].balance,
                       transactions |-> SlotTransactions(fill, a, D_WholeFoodsMarket)]]] :
        fill \in [1..MaxSpendTx -> SlotChoices(SpendAmounts, SpendPosted)]}

FetchSpending ==
    /\ data = NoData
    /\ \E json \in SpendSnapshots, clock \in SpendClocks : Loads(json, clock)

NextSpend == FetchSpending \/ Logout
SpecSpend == Init /\ [][NextSpend]_vars

\* --- subscriptions: two accounts and up to MaxSubTx charges dealt to them
\* in turn, the first three under descriptions with one grouping key.
MaxSubTx == 3

SubAccounts ==
    <<[id |-> "1", name |-> N_TotalChecking, balance |-> Dec(FALSE, 5240, 5000)],
      [id |-> "2", name |-> N_PlatinumCard, balance |-> Dec(FALSE, 1250, 0)]>>

SubDescriptions ==
    <<D_WholeFoodsMarket, D_WholeFoodsStore, D_WholeFoodsMarket, D_Netflix, D_Netflix>>

SubSlotAccount(i) == ((i - 1) % 2) + 1
SubSlotTxId(i) == TxIds[((i - 1) % 6) + 1]
SubSlotDescription(i) == SubDescriptions[((i - 1) % 5) + 1]

\* -1.00, -10.00, -100.00, -120.00
SubAmounts == {Dec(TRUE, 1, 0), Dec(TRUE, 10, 0), Dec(TRUE, 100, 0), Dec(TRUE, 120, 0)}

\* 1761913600 s; 432000 s before it, in seconds; 432000.5 s before it, in milliseconds
PostedFiveDaysBefore == [k |-> 1761481, r |-> 600]
PostedJustOverFive == [k |-> 1761481599, r |-> 500]
SubPosted == {PostedDay, PostedFiveDaysBefore, PostedJustOverFive}

SubSlotTransactions(fill, a) ==
    LET mine == SelectSeq([i \in 1..Len(fill) |-> i],
                          LAMBDA i : SubSlotAccount(i) = a /\ fill[i] # Absent)
    IN  [j \in 1..Len(mine) |->
            [id |-> SubSlotTxId(mine[j]), posted |-> fill[mine[j]][2],
             amount |-> fill[mine[j]][1], description |-> SubSlotDescription(mine[j]),
             memo |-> <<>>]]

SubSnapshots ==
    {[accounts |-> [a \in 1..Len(SubAccounts) |->
                      [id |-> SubAccounts[a].id, name |-> SubAccounts[a].name,
                       balance |-> SubAccounts[a].balance,
                       transactions |-> SubSlotTransactions(fill, a)]]] :
        fill \in [1..MaxSubTx -> SlotChoices(SubAmounts, SubPosted)]}

FetchCharges ==
    /\ data = NoData
    /\ \E json \in SubSnapshots : Loads(json, Clock0)

NextSubs == FetchCharges \/ Logout
SpecSubs == Init /\ [][NextSubs]_vars

\* --- the cap: up to MaxCapGroups groups of two or three charges more than
\* five days apart, the first charge of each group in the first account and
\* the others in the second; the charges of group g are of 10 + ((g * step
\* + shift) % 5) units, those of group `dull` of 1.00 (a mean that is not
\* above 1).
MaxCapGroups == 22

\* the ids of the k-th charge of group g: a1, a2, a3, b1, ...
CapTxIds ==
    <<"a1", "a2", "a3", "b1", "b2", "b3", "c1", "c2", "c3", "d1", "d2", "d3", "e1",
      "e2", "e3", "f1", "f2", "f3", "g1", "g2", "g3", "h1", "h2", "h3", "i1", "i2",
      "i3", "j1", "j2", "j3", "k1", "k2", "k3", "l1", "l2", "l3", "m1", "m2", "m3",
      "n1", "n2", "n3", "o1", "o2", "o3", "p1", "p2", "p3", "q1", "q2", "q3", "r1",
      "r2", "r3", "s1", "s2", "s3", "t1", "t2", "t3", "u1", "u2", "u3", "v1", "v2",
      "v3", "w1", "w2", "w3", "x1", "x2", "x3", "y1", "y2", "y3", "z1", "z2", "z3">>
CapTxId(g, k) == CapTxIds[3 * (g - 1) + k]

\* every fourth group has a third charge
CapCount(g) == IF g % 4 = 0 THEN 3 ELSE 2

CapAmount(g, step, shift, dull) ==
    IF g = dull THEN Dec(TRUE, 1, 0) ELSE Dec(TRUE, 10 + ((g * step + shift) % 5), 0)

CapCharge(g, k, step, shift, dull) ==
    [id |-> CapTxId(g, k),
     posted |-> IF k = 1 THEN PostedDay ELSE IF k = 2 THEN PostedJustOverFive
                ELSE PostedFiveDaysBefore,
     amount |-> CapAmount(g, step, shift, dull),
     description |-> D_Service(g),
     memo |-> <<>>]

CapSnapshot(n, step, shift, dull) ==
    LET first  == [g \in 1..n |-> CapCharge(g, 1, step, shift, dull)]
        second == [g \in 1..n |-> CapCharge(g, 2, step, shift, dull)]
        thirds == SelectSeq([g \in 1..n |-> g], LAMBDA g : CapCount(g) = 3)
        third  == [j \in 1..Len(thirds) |-> CapCharge(thirds[j], 3, step, shift, dull)]
    IN  [accounts |->
            <<[id |-> SubAccounts[1].id, name |-> SubAccounts[1].name,
               balance |-> SubAccounts[1].balance, transactions |-> first],
              [id |-> SubAccounts[2].id, name |-> SubAccounts[2].name,
               balance |-> SubAccounts[2].balance, transactions |-> second \o third]>>]

CapSnapshots ==
    {CapSnapshot(n, step, shift, dull) :
        n \in 0..MaxCapGroups, step \in {1, 2}, shift \in 0..4, dull \in {0, 7}}

FetchMany ==
    /\ data = NoData
    /\ \E json \in CapSnapshots : Loads(json, Clock0)

NextCap == FetchMany \/ Logout
SpecCap == Init /\ [][NextCap]_vars

\* --- charges and credits: two accounts and up to MaxMixedTx transactions
\* dealt to them in turn, every fourth one a credit of 100.00 and the others
\* charges of 100.00 or 120.00; an id is used once per account and again in
\* the other account.
MaxMixedTx == 4

MixedSlotTxId(i) == TxIds[((i - 1) % 3) + 1]

MixedCharges == {Dec(TRUE, 100, 0), Dec(TRUE, 120, 0)}
MixedCredits == {Dec(FALSE, 100, 0)}
MixedPosted == {PostedDay, PostedThreeDaysBefore, PostedJustOverFive}

MixedSlotChoices(i) ==
    SlotChoices(IF i % 4 = 0 THEN MixedCredits ELSE MixedCharges, MixedPosted)

MixedSlotTransactions(fill, a) ==
    LET mine == SelectSeq([i \in 1..Len(fill) |-> i],
                          LAMBDA i : SubSlotAccount(i) = a /\ fill[i] # Absent)
    IN  [j \in 1..Len(mine) |->
            [id |-> MixedSlotTxId(mine[j]), posted |-> fill[mine[j]][2],
             amount |-> fill[mine[j]][1], description |-> SubSlotDescription(mine[j]),
             memo |-> <<>>]]

MixedSnapshots ==
    {[accounts |-> [a \in 1..Len(SubAccounts) |->
                      [id |-> SubAccounts[a].id, name |-> SubAccounts[a].name,
                       balance |-> SubAccounts[a].balance,
                       transactions |-> MixedSlotTransactions(fill, a)]]] :
        fill \in {f \in [1..MaxMixedTx -> SlotChoices(MixedCharges \cup MixedCredits, MixedPosted)] :
                    \A i \in 1..MaxMixedTx : f[i] \in MixedSlotChoices(i)}}

FetchMixed ==
    /\ data = NoData
    /\ \E json \in MixedSnapshots : Loads(json, Clock0)

NextMixed == FetchMixed \/ Logout
SpecMixed == Init /\ [][NextMixed]_vars

\* --- descriptions: one account with three charges, the first described by
\* up to MaxKeyTokens pieces put end to end, the second by the same text
\* without its digits and punctuation, the third by the same text without
\* the digits and punctuation that touch whitespace or an end of the text.
MaxKeyTokens == 4

P_WholeFoods == <<"W","h","o","l","e"," ","F","o","o","d","s">>
P_Net == <<"N","e","t">>
P_COM == <<"C","O","M">>
P_ab == <<"a","b">>
P_Space == <<" ">>
P_Number == <<"#","1">>
KeyTokens == {P_WholeFoods, P_Net, P_COM, P_ab, P_Space, P_Number}

RECURSIVE Concat(_)
Concat(pieces) == IF pieces = <<>> THEN <<>> ELSE Head(pieces) \o Concat(Tail(pieces))

IsLetter(c) == ToLowerChar(c) \in LowerLetters

\* The text without its characters that are neither letters nor whitespace
WithoutMarks(d) == SelectSeq(d, LAMBDA c : IsLetter(c) \/ IsSpace(c))

\* The character at i is neither a letter nor whitespace, and no letter
\* stands between it and some whitespace or an end of the text
LooseMark(d, i) ==
    /\ ~IsLetter(d[i])
    /\ ~IsSpace(d[i])
    /\ \/ \E j \in 0..(i - 1) :
             /\ j = 0 \/ IsSpace(d[j])
             /\ \A k \in (j + 1)..i : ~IsLetter(d[k])
       \/ \E j \in (i + 1)..(Len(d) + 1) :
             /\ j = Len(d) + 1 \/ IsSpace(d[j])
             /\ \A k \in i..(j - 1) : ~IsLetter(d[k])

WithoutLooseMarks(d) ==
    LET keep == SelectSeq([i \in 1..Len(d) |-> i], LAMBDA i : ~LooseMark(d, i))
    IN  [k \in 1..Len(keep) |-> d[keep[k]]]

KeyCharge(id, d) ==
    [id |-> id, posted |-> PostedDay, amount |-> Dec(TRUE, 10, 0),
     description |-> d, memo |-> <<>>]

KeySnapshots ==
    {[accounts |->
        <<[id |-> "1", name |-> N_Wallet, balance |-> Dec(FALSE, 300, 5000),
           transactions |-> <<KeyCharge("t1", Concat(pieces)),
                              KeyCharge("t2", WithoutMarks(Concat(pieces))),
                              KeyCharge("t3", WithoutLooseMarks(Concat(pieces)))>>]>>] :
        pieces \in SeqsUpTo(KeyTokens, MaxKeyTokens)}

FetchDescribed ==
    /\ data = NoData
    /\ \E json \in KeySnapshots : Loads(json, Clock0)

NextKey == FetchDescribed \/ Logout
SpecKey == Init /\ [][NextKey]_vars

\* --- account names: two accounts without transactions, the first named by
\* up to MaxNameTokens pieces put end to end, the second by the same name
\* with upper and lower case exchanged.
MaxNameTokens == 3

T_Visa == <<"V","i","s","a">>
T_CHECKING == <<"C","H","E","C","K","I","N","G">>
T_Savings == <<"S","a","v","i","n","g","s">>
T_cARD == <<"c","A","R","D">>
T_401K == <<"4","0","1","K">>
NameTokens == {T_Visa, T_CHECKING, T_Savings, T_cARD, T_401K, N_Wallet, P_Space}

SwapCaseChar(c) ==
    IF c \in DOMAIN LowerOf THEN LowerOf[c]
    ELSE IF c \in LowerLetters THEN UpperCase[CHOOSE i \in 1..26 : LowerCase[i] = c]
    ELSE c

SwapCase(str) == [i \in 1..Len(str) |-> SwapCaseChar(str[i])]

NameSnapshots ==
    {[accounts |->
        <<[id |-> "1", name |-> Concat(pieces), balance |-> Dec(TRUE, 40, 0),
           transactions |-> <<>>],
          [id |-> "2", name |-> SwapCase(Concat(pieces)), balance |-> Dec(TRUE, 40, 0),
           transactions |-> <<>>]>>] :
        pieces \in SeqsUpTo(NameTokens, MaxNameTokens)}

FetchNamed ==
    /\ data = NoData
    /\ \E json \in NameSnapshots : Loads(json, Clock0)

NextName == FetchNamed \/ Logout
SpecName == Init /\ [][NextName]_vars

\* --- timestamps: two accounts and up to MaxStampTx transactions of 100.00
\* dealt to them in turn, charges except that the second of every three may
\* be a credit, posted at 1,700,000,000 s written in seconds or in
\* milliseconds, six days earlier, or at the two values around the threshold.
MaxStampTx == 3

StampSeconds == [k |-> 1700000, r |-> 0]
StampMillis == [k |-> 1700000000, r |-> 0]
StampSixDaysBefore == [k |-> 1699481600, r |-> 0]
StampAtThreshold == [k |-> 2000000, r |-> 0]
StampOverThreshold == [k |-> 2000000, r |-> 1]
StampPosted ==
    {StampSeconds, StampMillis, StampSixDaysBefore, StampAtThreshold, StampOverThreshold}

\* Date.now() exactly 30 days after 1,700,000,000 s, and a day after 2,000,000,000 s
ClockStampEdge == [k |-> 1702592000, r |-> 0]
ClockStampLate == [k |-> 2000086400, r |-> 0]
StampClocks == {ClockStampEdge, ClockStampLate}

StampSlotChoices(i) ==
    SlotChoices(IF i % 3 = 2 THEN MixedCredits \cup {Dec(TRUE, 100, 0)} ELSE {Dec(TRUE, 100, 0)},
                StampPosted)

StampSlotTransactions(fill, a) ==
    LET mine == SelectSeq([i \in 1..Len(fill) |-> i],
                          LAMBDA i : SubSlotAccount(i) = a /\ fill[i] # Absent)
    IN  [j \in 1..Len(mine) |->
            [id |-> SubSlotTxId(mine[j]), posted |-> fill[mine[j]][2],
             amount |-> fill[mine[j]][1], description |-> D_WholeFoodsMarket,
             memo |-> <<>>]]

StampSnapshots ==
    {[accounts |-> [a \in 1..Len(SubAccounts) |->
                      [id |-> SubAccounts[a].id, name |-> SubAccounts[a].name,
                       balance |-> SubAccounts[a].balance,
                       transactions |-> StampSlotTransactions(fill, a)]]] :
        fill \in {f \in [1..MaxStampTx ->
                            SlotChoices(MixedCredits \cup {Dec(TRUE, 100, 0)}, StampPosted)] :
                    \A i \in 1..MaxStampTx : f[i] \in StampSlotChoices(i)}}

FetchStamped ==
    /\ data = NoData
    /\ \E json \in StampSnapshots, clock \in StampClocks : Loads(json, clock)

NextStamp == FetchStamped \/ Logout
SpecStamp == Init /\ [][NextStamp]_vars

\* --- sparse accounts: up to MaxSparseAccounts accounts, each without a
\* transactions field, with an empty array, or with two transactions of one
\* description posted more than 5 days apart.
MaxSparseAccounts == 3

\* -0.00, -0.50, -2.00
SparseAmounts == {Dec(TRUE, 0, 0), Dec(TRUE, 0, 5000), Dec(TRUE, 2, 0)}

NoTransactions == <<"missing">>
SparseKinds == {NoTransactions, <<>>} \cup (SparseAmounts \X SparseAmounts)

SparseTxId(i, j) == TxIds[((2 * (i - 1) + j - 1) % 6) + 1]

SparseAccount(i, kind) ==
    LET base == [id |-> AccountIds[i], name |-> N_Wallet, balance |-> Dec(FALSE, 10, 0)]
    IN  IF kind = NoTransactions THEN base
        ELSE IF kind = <<>>
        THEN [id |-> base.id, name |-> base.name, balance |-> base.balance,
              transactions |-> <<>>]
        ELSE [id |-> base.id, name |-> base.name, balance |-> base.balance,
              transactions |->
                 <<[id |-> SparseTxId(i, 1), posted |-> PostedDay, amount |-> kind[1],
                    description |-> D_Netflix, memo |-> <<>>],
                   [id |-> SparseTxId(i, 2), posted |-> PostedJustOverFive,
                    amount |-> kind[2], description |-> D_Netflix, memo |-> <<>>]>>]

SparseSnapshots ==
    {[accounts |-> [i \in 1..Len(kinds) |-> SparseAccount(i, kinds[i])]] :
        kinds \in SeqsUpTo(SparseKinds, MaxSparseAccounts)}

FetchSparse ==
    /\ data = NoData
    /\ \E json \in SparseSnapshots : Loads(json, Clock0)

NextSparse == FetchSparse \/ Logout
SpecSparse == Init /\ [][NextSparse]_vars

----------------------------------------------------------------------------
(* The session: login, logout and the fetch effect (App.tsx 84-164 and     *)
(* 640-726)                                                                *)

\* --- the session: at most MaxInFlight requests are waiting at a time
MaxInFlight == 2

Urls == {"urlA", "urlB"}
Tokens == {"", "token"}
Queries == {NoQuery, DemoQuery}

N_HighYieldSavings == <<"H","i","g","h"," ","Y","i","e","l","d"," ","S","a","v","i","n","g","s">>
N_BrokerageAccount == <<"B","r","o","k","e","r","a","g","e"," ","A","c","c","o","u","n","t">>
D_ChevronGasStation == <<"C","h","e","v","r","o","n"," ","G","a","s"," ","S","t","a","t","i","o","n">>
D_PayrollDeposit == <<"P","a","y","r","o","l","l"," ","D","e","p","o","s","i","t">>
D_InternalTransfer == <<"I","n","t","e","r","n","a","l"," ","T","r","a","n","s","f","e","r">>
D_BlueBottleCoffee == <<"B","l","u","e"," ","B","o","t","t","l","e"," ","C","o","f","f","e","e">>
D_RestorationHardware == <<"R","e","s","t","o","r","a","t","i","o","n"," ","H","a","r","d","w","a","r","e">>

\* now - days * day, as a posted value
DaysBefore(clock, days) ==
    LET seconds == clock.k - days * 24 * 60 * 60
    IN  [k |-> seconds \div 1000, r |-> seconds % 1000]

DummyTx(id, clock, days, amount, description) ==
    [id |-> id, posted |-> DaysBefore(clock, days), amount |-> amount,
     description |-> description, memo |-> <<>>]

\* getDummyData(), with Date.now() = clock
getDummyData(clock) ==
    [accounts |->
        <<[id |-> "1", name |-> N_TotalChecking, balance |-> Dec(FALSE, 5240, 5000),
           transactions |->
              <<DummyTx("t1", clock, 1, Dec(TRUE, 120, 0), D_WholeFoodsMarket),
                DummyTx("t2", clock, 3, Dec(TRUE, 45, 5000), D_ChevronGasStation),
                DummyTx("t3", clock, 30, Dec(TRUE, 120, 0), D_WholeFoodsMarket),
                DummyTx("t4", clock, 5, Dec(FALSE, 3500, 0), D_PayrollDeposit)>>],
          [id |-> "2", name |-> N_HighYieldSavings, balance |-> Dec(FALSE, 25000, 0),
           transactions |->
              <<DummyTx("t5", clock, 15, Dec(FALSE, 1000, 0), D_InternalTransfer)>>],
          [id |-> "3", name |-> N_PlatinumCard, balance |-> Dec(FALSE, 1250, 0),
           transactions |->
              <<DummyTx("t6", clock, 2, Dec(TRUE, 85, 0), D_BlueBottleCoffee),
                DummyTx("t7", clock, 4, Dec(TRUE, 150, 0), D_RestorationHardware),
                DummyTx("t8", clock, 32, Dec(TRUE, 85, 0), D_BlueBottleCoffee)>>],
          [id |-> "4", name |-> N_BrokerageAccount, balance |-> Dec(FALSE, 45200, 0),
           transactions |-> <<>>]>>]

DummyData == getDummyData(Clock0)

\* What the bridge behind an access URL answers: one account, its own
ServedAccounts(url) ==
    [accounts |-> <<[id |-> url, name |-> N_Wallet, balance |-> Dec(FALSE, 10, 0),
                     transactions |-> <<>>]>>]

NotJson == [notJson |-> TRUE]

\* What await fetch('/api/claim') and claimRes.json() can yield
ClaimOutcomes ==
    {[rejected |-> FALSE, ok |-> TRUE, body |-> [accessUrl |-> u]] : u \in Urls}
    \cup {[rejected |-> FALSE, ok |-> FALSE, body |-> [error |-> e]] :
             e \in {"Failed to claim simplefin token", ""}}
    \cup {[rejected |-> FALSE, ok |-> ok, body |-> NotJson] : ok \in BOOLEAN}
    \cup {[rejected |-> TRUE, message |-> "Failed to fetch"]}

\* The message of what handleLogin's try block throws, or "" if it throws nothing
ClaimThrows(outcome) ==
    IF outcome.rejected THEN outcome.message
    ELSE IF outcome.body = NotJson THEN "Unexpected token"
    ELSE IF ~outcome.ok
         THEN (IF outcome.body.error # "" THEN outcome.body.error
               ELSE "Failed to claim token")
    ELSE ""

\* What await fetch('/api/accounts') and res.text() can yield for a source
FetchOutcomes(source) ==
    {[rejected |-> FALSE, ok |-> TRUE, body |-> ServedAccounts(source)]}
    \cup {[rejected |-> FALSE, ok |-> FALSE, body |-> [error |-> e]] :
             e \in {"No SimpleFIN access URL provided", ""}}
    \cup {[rejected |-> FALSE, ok |-> FALSE, body |-> NotJson]}
    \cup {[rejected |-> TRUE, message |-> "Failed to fetch"]}

\* The message of what fetchData's try block throws, or "" if it throws nothing
FetchThrows(outcome) ==
    IF outcome.rejected THEN outcome.message
    ELSE IF outcome.body = NotJson THEN "Server returned unexpected response"
    ELSE IF ~outcome.ok
         THEN (IF outcome.body.error # "" THEN outcome.body.error
               ELSE "Failed to fetch data")
    ELSE ""

\* The login view is what the component returns (278, 840)
LoginView == accessUrl = Null /\ ~app.hasEnvConfig /\ ~useDummy(search)

InFlight == Len(claims) + Len(fetches)

\* The effect after the first render
Mount ==
    /\ event = "init"
    /\ event' = "mount"
    /\ IF EffectReturns(accessUrl, search)
       THEN UNCHANGED <<fetches, loading>>
       ELSE /\ fetches' = Append(fetches, [source |-> SourceOf(accessUrl, search),
                                            loggedOut |-> FALSE])
            /\ loading' = TRUE
    /\ UNCHANGED <<data, now, stats, locals, request, app, accessUrl, localStorage, search,
                   setupToken, error, claims, loggedOut>>

\* onChange of the token input
TypeToken ==
    /\ event # "init"
    /\ LoginView
    /\ \E value \in Tokens \ {setupToken} : setupToken' = value
    /\ event' = "type"
    /\ UNCHANGED <<data, now, stats, locals, request, app, accessUrl, localStorage, search,
                   loading, error, claims, fetches, loggedOut>>

\* handleLogin up to its first await.  The submit button is disabled while
\* loading.
handleLogin ==
    /\ event # "init"
    /\ LoginView
    /\ ~loading
    /\ event' = "submit"
    /\ IF setupToken = ""
       THEN UNCHANGED <<loading, error, claims>>
       ELSE /\ InFlight < MaxInFlight
            /\ loading' = TRUE
            /\ error' = ""
            /\ claims' = Append(claims, setupToken)
    /\ UNCHANGED <<data, now, stats, locals, request, app, accessUrl, localStorage, search,
                   setupToken, fetches, loggedOut>>

\* Mutant: the finally block is missing.
LoadingAfterClaim_NoFinally == loading

\* finally { setLoading(false) }
LoadingAfterClaim == FALSE

\* handleLogin from the answer of /api/claim on, with the render and the
\* effect that follow.
ClaimReturns ==
    \E i \in DOMAIN claims, outcome \in ClaimOutcomes :
        /\ claims' = RemoveAt(claims, i)
        /\ IF ClaimThrows(outcome) = ""
           THEN /\ accessUrl' = outcome.body.accessUrl
                /\ localStorage' = outcome.body.accessUrl
                /\ loggedOut' = FALSE
                /\ event' = "claimed"
                /\ Effect(accessUrl', search, LoadingAfterClaim)
                /\ UNCHANGED error
           ELSE /\ error' = ClaimThrows(outcome)
                /\ loading' = LoadingAfterClaim
                /\ event' = "claimFailed"
                /\ UNCHANGED <<accessUrl, localStorage, fetches, loggedOut>>
        /\ UNCHANGED <<data, now, stats, locals, request, app, search, setupToken>>

\* fetchData from its await on: the timer of the demo, or the answer of
\* /api/accounts; with the render that follows (stats is recomputed).
FetchReturns ==
    \E i \in DOMAIN fetches :
        /\ fetches' = RemoveAt(fetches, i)
        /\ loading' = FALSE
        /\ IF fetches[i].source = "demo"
           THEN /\ SetData(DummyData, Clock0)
                /\ event' = "fetched"
                /\ UNCHANGED error
           ELSE \E outcome \in FetchOutcomes(fetches[i].source) :
                   IF FetchThrows(outcome) = ""
                   THEN /\ SetData(outcome.body, Clock0)
                        /\ event' = "fetched"
                        /\ UNCHANGED error
                   ELSE /\ error' = FetchThrows(outcome)
                        /\ event' = "fetchFailed"
                        /\ UNCHANGED <<data, now, stats, locals>>
        /\ UNCHANGED <<request, app, accessUrl, localStorage, search, setupToken, claims, loggedOut>>

\* The logout button is part of the dashboard
ClickLogout ==
    /\ event # "init"
    /\ ~LoginView
    /\ logout

InitSession ==
    \E variant \in {1, 2}, hasEnvConfig \in BOOLEAN, query \in Queries,
       stored \in Urls \cup {Null} :
        Constructed(variant, hasEnvConfig, query, stored)

NextSession ==
    Mount \/ TypeToken \/ handleLogin \/ ClaimReturns \/ FetchReturns \/ ClickLogout
SpecSession == InitSession /\ [][NextSession]_vars

----------------------------------------------------------------------------
(* The server side of /api/claim and /api/accounts: the Netlify functions  *)
(* (unnamed/part_000, netlify/functions/accounts.ts) and the middleware of *)
(* the Vite dev server (App.tsx 1148-1243)                                 *)

Servers == {"netlify", "vite"}

\* The body of a POST /api/claim: not JSON, JSON without setupToken, with an
\* empty one, with one that decodes to something new URL() rejects, and two
\* that decode to claim URLs
ClaimBodies ==
    {NotJson, [none |-> TRUE]}
    \cup {[setupToken |-> t] : t \in {"", "garbage", "tokenA", "tokenB"}}

\* new URL(Buffer.from(token, 'base64').toString('utf8')) does not throw
IsClaimUrl(token) == token \in {"tokenA", "tokenB"}

\* VITE_SIMPLEFIN_ACCESS_URL and the x-simplefin-url header of a GET
\* /api/accounts: absent (Null), an URL, or a string new URL() rejects
ConfiguredUrls == {Null, "envUrl"}
HeaderUrls == {Null, "urlA", "garbage"}

\* What the upstream does with the request made to it
UpstreamStatuses == {200, 204, 400, 403, 404, 500}
UpstreamBodies == {"", "text"}
UpstreamOutcomes ==
    {[error |-> FALSE, statusCode |-> c, rawData |-> b] :
        c \in UpstreamStatuses, b \in UpstreamBodies}
    \cup {[error |-> TRUE, message |-> m] : m \in {"ECONNREFUSED", "ETIMEDOUT"}}

\* The handler answers: returns (Netlify) or res.end (Vite)
Responded(req, statusCode, body) ==
    [req EXCEPT !.pc = "done",
                !.responses = Append(@, [statusCode |-> statusCode, body |-> body])]

\* https.request(...).end(): the handler waits for the upstream
Contacted(req) == [req EXCEPT !.pc = "waiting", !.contacted = TRUE]

Received(server, api, input) ==
    [server |-> server, api |-> api, input |-> input, pc |-> "received",
     contacted |-> FALSE, responses |-> <<>>, uncaught |-> FALSE]

\* process.env.VITE_SIMPLEFIN_ACCESS_URL || event.headers['x-simplefin-url']
TargetUrl(input) == IF input.env # Null THEN input.env ELSE input.header

\* claim function (part_000 10-58), up to the Promise
NetlifyClaim(req) ==
    IF req.input = NotJson THEN Responded(req, 400, "Unexpected token")
    ELSE IF "setupToken" \notin DOMAIN req.input \/ req.input.setupToken = ""
    THEN Responded(req, 400, "Missing setup token")
    ELSE IF ~IsClaimUrl(req.input.setupToken) THEN Responded(req, 400, "Invalid URL")
    ELSE Contacted(req)

\* accounts function (accounts.ts 6-73), up to the Promise
NetlifyAccounts(req) ==
    IF TargetUrl(req.input) = Null
    THEN Responded(req, 401, "No SimpleFIN access URL provided")
    ELSE IF TargetUrl(req.input) = "garbage" THEN Responded(req, 500, "Invalid URL")
    ELSE Contacted(req)

\* middleware, GET /api/accounts (1149-1201), up to proxyReq.end()
ViteAccounts(req) ==
    IF TargetUrl(req.input) = Null
    THEN Responded(req, 401, "No SimpleFIN access URL provided")
    ELSE IF TargetUrl(req.input) = "garbage" THEN Responded(req, 500, "Invalid URL")
    ELSE Contacted(req)

\* middleware, POST /api/claim (1203-1237), when the body has been read, up
\* to proxyReq.end()
ViteClaim(req) ==
    IF req.input = NotJson THEN Responded(req, 400, "Unexpected token")
    ELSE IF "setupToken" \notin DOMAIN req.input
    THEN Responded(req, 400, "The first argument must be of type string")
    ELSE IF ~IsClaimUrl(req.input.setupToken) THEN Responded(req, 400, "Invalid URL")
    ELSE Contacted(req)

\* A request arrives and its handler runs up to where it waits or answers
Handle ==
    /\ request.pc \in {"none", "done"}
    /\ \E server \in Servers :
          \/ \E body \in ClaimBodies :
                request' = (IF server = "netlify"
                            THEN NetlifyClaim(Received(server, "claim", body))
                            ELSE ViteClaim(Received(server, "claim", body)))
          \/ \E env \in ConfiguredUrls, header \in HeaderUrls :
                request' = (IF server = "netlify"
                            THEN NetlifyAccounts(Received(server, "accounts",
                                                          [env |-> env, header |-> header]))
                            ELSE ViteAccounts(Received(server, "accounts",
                                                       [env |-> env, header |-> header])))
    /\ UNCHANGED <<data, now, stats, locals, sessionVars>>

\* res.on('end') of the claim function (part_000 32-45)
NetlifyClaimEnd(req, outcome) ==
    IF outcome.statusCode # 200
    THEN Responded(req, outcome.statusCode, "Failed to claim simplefin token")
    ELSE Responded(req, 200, outcome.rawData)

\* proxyRes.on('end') of the middleware's claim (1219-1227)
ViteClaimEnd(req, outcome) ==
    IF outcome.statusCode # 200
    THEN Responded(req, outcome.statusCode, "Failed to claim token")
    ELSE Responded(req, 200, outcome.rawData)

\* req.on('error') (part_000 48-53, accounts.ts 59-64), proxyReq.on('error')
\* (1190-1193)
OnError(req, outcome) == Responded(req, 500, outcome.message)

\* The claim of the middleware registers no 'error' listener on proxyReq
\* (1215-1229): the event is thrown as an uncaught exception, and nothing
\* ends the response.
ViteClaimError(req, outcome) == [req EXCEPT !.pc = "done", !.uncaught = TRUE]

\* The upstream answers, or the request to it fails
UpstreamReturns ==
    /\ request.pc = "waiting"
    /\ \E outcome \in UpstreamOutcomes :
          request' =
             IF outcome.error
             THEN (IF request.server = "vite" /\ request.api = "claim"
                   THEN ViteClaimError(request, outcome)
                   ELSE OnError(request, outcome))
             ELSE IF request.api = "accounts"
                  THEN Responded(request, outcome.statusCode, outcome.rawData)
             ELSE IF request.server = "netlify"
                  THEN NetlifyClaimEnd(request, outcome)
             ELSE ViteClaimEnd(request, outcome)
    /\ UNCHANGED <<data, now, stats, locals, sessionVars>>

NextServer == Handle \/ UpstreamReturns
SpecServer == Init /\ [][NextServer]_vars

Next ==
    \/ Handle \/ UpstreamReturns
    \/ Mount \/ TypeToken \/ handleLogin \/ ClaimReturns \/ FetchReturns \/ ClickLogout
    \/ FetchBalances \/ FetchSpending \/ FetchCharges \/ FetchMany \/ FetchMixed
    \/ FetchDescribed \/ FetchNamed \/ FetchStamped \/ FetchSparse \/ Logout
Spec == Init /\ [][Next]_vars

----------------------------------------------------------------------------
(* Properties of the balance aggregation                                   *)

\* The sum of the values of a function with a finite domain
RECURSIVE SumFn(_)
SumFn(f) ==
    IF DOMAIN f = {} THEN 0
    ELSE LET x == CHOOSE x \in DOMAIN f : TRUE
         IN  f[x] + SumFn([y \in DOMAIN f \ {x} |-> f[y]])

Loaded == data # NoData

Accounts == IF Loaded THEN data.accounts ELSE <<>>

CardIndexes == {i \in 1..Len(Accounts) : getAccountType(Accounts[i].name) = "Credit Card"}
OtherIndexes == (1..Len(Accounts)) \ CardIndexes

BalanceAt(i) == parseFloat(Accounts[i].balance)


ZeroBalances == [netWorth |-> 0, assets |-> 0, liabilities |-> 0]

\* C3: the reported netWorth is the sum of the signed balances of the
\* accounts that are not Credit Card minus the sum of the absolute values of
\* the balances of the Credit Card accounts.
C3_NetWorthDecomposition ==
    stats.netWorth = SumFn([i \in OtherIndexes |-> BalanceAt(i)])
                     - SumFn([i \in CardIndexes |-> Abs(BalanceAt(i))])

\* A card that is owed money (negative balance) beside an ordinary account.
C3_Witness ==
    /\ Loaded
    /\ \E i \in CardIndexes : BalanceAt(i) < 0
    /\ \E i \in OtherIndexes : BalanceAt(i) # 0
    /\ stats.netWorth # 0

\* C4: a Credit Card account takes |balance| off netWorth, adds |balance| to
\* liabilities and adds nothing to assets, whatever the sign of its balance:
\* the report is the report of the other accounts changed by exactly that.
\* 'Platinum Card' alone, with balance 1250.00 or -1250.00, gives net worth
\* -1250 and liabilities 1250.
C4_CardIsDebt ==
    /\ \A i \in CardIndexes :
          LET rest == AggregateBalances(RemoveAt(Accounts, i), 1, ZeroBalances)
              owe  == Abs(BalanceAt(i))
          IN  /\ stats.netWorth = rest.netWorth - owe
              /\ stats.liabilities = rest.liabilities + owe
              /\ stats.assets = rest.assets
    /\ (/\ Len(Accounts) = 1
        /\ Accounts[1].name = N_PlatinumCard
        /\ Accounts[1].balance \in {Dec(FALSE, 1250, 0), Dec(TRUE, 1250, 0)})
       => /\ stats.netWorth = -1250 * Scale
          /\ stats.liabilities = 1250 * Scale
          /\ stats.assets = 0

\* 'Platinum Card' with balance -1250.00 among other accounts.
C4_Witness ==
    /\ Loaded
    /\ Len(Accounts) >= 2
    /\ \E i \in CardIndexes :
          /\ Accounts[i].name = N_PlatinumCard
          /\ Accounts[i].balance = Dec(TRUE, 1250, 0)
    /\ stats.liabilities >= 1250 * Scale

\* C5: netWorth = assets - liabilities, where assets is the sum of the
\* positive balances of the accounts that are not Credit Card, liabilities
\* the sum of |balance| of their other balances and of the Credit Card
\* accounts, and neither is negative.
C5_AssetsMinusLiabilities ==
    /\ stats.netWorth = stats.assets - stats.liabilities
    /\ stats.assets =
          SumFn([i \in {j \in OtherIndexes : BalanceAt(j) > 0} |-> BalanceAt(i)])
    /\ stats.liabilities =
          SumFn([i \in {j \in OtherIndexes : BalanceAt(j) <= 0} |-> Abs(BalanceAt(i))])
          + SumFn([i \in CardIndexes |-> Abs(BalanceAt(i))])
    /\ stats.assets >= 0
    /\ stats.liabilities >= 0

\* An overdrawn ordinary account beside one in credit and a card.
C5_Witness ==
    /\ Loaded
    /\ \E i \in OtherIndexes : BalanceAt(i) < 0
    /\ \E i \in OtherIndexes : BalanceAt(i) > 0
    /\ CardIndexes # {}
    /\ stats.assets > 0
    /\ stats.liabilities > 0

----------------------------------------------------------------------------
(* Properties of transfer detection and of the 30-day spending             *)

\* A transaction of the snapshot: <<index of its account, index in the account>>
TxRefs ==
    UNION {{<<a, j>> : j \in 1..Len(TransactionsOf(Accounts[a]))} : a \in 1..Len(Accounts)}

TxAt(r) == TransactionsOf(Accounts[r[1]])[r[2]]
AmountOf(r) == parseFloat(TxAt(r).amount)
PostedOf(r) == NormalizePosted(TxAt(r).posted)
NameOf(r) == Accounts[r[1]].name

\* Its place in allTransactions: accounts in order, then transactions in order
FlatIndex(r) ==
    SumFn([b \in 1..(r[1] - 1) |-> Len(TransactionsOf(Accounts[b]))]) + r[2]

\* o is a counterpart of r: another id, the negated amount to within 0.001,
\* posted less than 3 days (259,200 s) apart
Counterpart(r, o) ==
    /\ TxAt(o).id # TxAt(r).id
    /\ -(Scale \div 1000) < AmountOf(o) + AmountOf(r)
    /\ AmountOf(o) + AmountOf(r) < Scale \div 1000
    /\ AbsDiffMillis(PostedOf(o), PostedOf(r)) < 259200 * 1000

Flagged(r) == locals.transfer[FlatIndex(r)]

\* now - 30 days
ThirtyDaysAgo == [s |-> now.s - 30 * 86400, ms |-> now.ms]

\* r is a debit of the last 30 days that has no counterpart
Included(r) ==
    /\ SecondsGeq(PostedOf(r), ThirtyDaysAgo)
    /\ AmountOf(r) < 0
    /\ ~\E o \in TxRefs : Counterpart(r, o)

\* The snapshot without the transactions flagged as transfers
WithoutFlagged ==
    [accounts |->
        [a \in 1..Len(Accounts) |->
            [Accounts[a] EXCEPT !.transactions =
                LET keep == SelectSeq([j \in 1..Len(TransactionsOf(Accounts[a])) |-> j],
                                      LAMBDA j : ~Flagged(<<a, j>>))
                IN  [k \in 1..Len(keep) |-> TransactionsOf(Accounts[a])[keep[k]]]]]]

\* C1: a transaction flagged as a transfer adds nothing to spending30d nor to
\* any entry of spendingByAccount: both are what the snapshot without the
\* flagged transactions gives, at the same value of now.
C1_SpendExclusivity ==
    Loaded =>
        LET without == ComputeStats(WithoutFlagged, now).stats IN
        /\ stats.spending30d = without.spending30d
        /\ stats.spendingByAccount = without.spendingByAccount

\* A flagged debit of the last 30 days beside a debit that is counted.
C1_Witness ==
    /\ Loaded
    /\ \E r \in TxRefs :
          /\ Flagged(r)
          /\ AmountOf(r) < 0
          /\ SecondsGeq(PostedOf(r), ThirtyDaysAgo)
    /\ stats.spending30d > 0

\* C2: isTransfer(t) holds exactly when some transaction of the snapshot, in
\* any account, has another id, the negated amount to within 0.001 and a
\* normalized timestamp less than 259,200 s from that of t.
C2_TransferDefinition ==
    /\ Len(locals.transfer) = Cardinality(TxRefs)
    /\ \A r \in TxRefs : Flagged(r) <=> \E o \in TxRefs : Counterpart(r, o)

\* A flagged pair in two accounts whose amounts differ by 0.0005, beside a
\* transaction that is not flagged although one with the negated amount and
\* the same id exists.
C2_Witness ==
    /\ \E r, o \in TxRefs :
          /\ r[1] # o[1]
          /\ Flagged(r) /\ Flagged(o)
          /\ Counterpart(r, o)
          /\ AmountOf(r) + AmountOf(o) # 0
    /\ \E r \in TxRefs : ~Flagged(r)

\* C6: spending30d is the sum of |amount| over exactly the transactions
\* posted at or after now - 30 days, with a negative amount, that are not
\* transfers.
C6_SpendingSum ==
    stats.spending30d =
        SumFn([r \in {x \in TxRefs : Included(x)} |-> Abs(AmountOf(r))])

\* One debit is counted, one is older than 30 days by a millisecond, one is a transfer.
C6_Witness ==
    /\ Cardinality(TxRefs) >= 3
    /\ \E r \in TxRefs : Included(r)
    /\ \E r \in TxRefs : AmountOf(r) < 0 /\ ~SecondsGeq(PostedOf(r), ThirtyDaysAgo)
    /\ \E r \in TxRefs : AmountOf(r) > 0
    /\ stats.spending30d > 0

\* C7: spendingByAccount has one entry per account name that has a counted
\* transaction, the entry of a name is the counted spend of all the accounts
\* bearing it, and the entries add up to spending30d.
C7_SpendingByName ==
    /\ DOMAIN stats.spendingByAccount = {NameOf(r) : r \in {x \in TxRefs : Included(x)}}
    /\ \A n \in DOMAIN stats.spendingByAccount :
          stats.spendingByAccount[n] =
              SumFn([r \in {x \in TxRefs : Included(x) /\ NameOf(x) = n} |-> Abs(AmountOf(r))])
    /\ SumFn(stats.spendingByAccount) = stats.spending30d

\* Two accounts with the same name and one with another name all have counted spend.
C7_Witness ==
    /\ \E r, o \in TxRefs :
          /\ r[1] # o[1]
          /\ NameOf(r) = NameOf(o)
          /\ Included(r) /\ Included(o)
    /\ Cardinality(DOMAIN stats.spendingByAccount) = 2

\* C8: when o is a counterpart of r, r is flagged, and so is o, of which r
\* is a counterpart.
C8_TransferSymmetry ==
    \A r, o \in TxRefs :
        Counterpart(r, o) => /\ Flagged(r)
                             /\ Flagged(o)
                             /\ Counterpart(o, r)

\* A credit and a debit in two accounts, not posted at the same time, flag each other.
C8_Witness ==
    \E r, o \in TxRefs :
        /\ r[1] # o[1]
        /\ AmountOf(r) > 0 /\ AmountOf(o) < 0
        /\ PostedOf(r) # PostedOf(o)
        /\ Counterpart(r, o)
        /\ Flagged(r) /\ Flagged(o)

----------------------------------------------------------------------------
(* Properties of subscription detection                                    *)

KeyOf(r) == Norm(TxAt(r).description)

\* The negative, non-transfer transactions
Charges == {r \in TxRefs : AmountOf(r) < 0 /\ ~\E o \in TxRefs : Counterpart(r, o)}

\* The charges whose grouping key is key
Members(key) == {r \in Charges : KeyOf(r) = key}

GroupKeys == {KeyOf(r) : r \in {x \in Charges : Len(KeyOf(x)) >= 3}}

SumOfAmounts(M) == SumFn([r \in M |-> Abs(AmountOf(r))])

Newest(M) == CHOOSE r \in M : \A o \in M : SecondsGeq(PostedOf(r), PostedOf(o))
Oldest(M) == CHOOSE r \in M : \A o \in M : SecondsGeq(PostedOf(o), PostedOf(r))

\* The gap between the newest and the oldest member exceeds 5 days (432,000 s)
SpreadOverFiveDays(M) ==
    AbsDiffMillis(PostedOf(Newest(M)), PostedOf(Oldest(M))) > 432000 * 1000

GroupOf(key) == CHOOSE g \in 1..Len(locals.subGroups) : locals.subGroups[g].norm = key

ReportedFor(key) == {i \in 1..Len(stats.subscriptions) : stats.subscriptions[i].norm = key}

C10_ConsistentAmount ==
    /\ \A g \in 1..Len(locals.subGroups) :
       \A M \in {Members(locals.subGroups[g].norm)} :
       \A n \in {Cardinality(M)}, sum \in {SumOfAmounts(M)} :
          LET max == IF 3 * sum > 100 * Scale * n THEN 3 * sum ELSE 100 * Scale * n
          IN  n >= 2 =>
                (locals.subGroups[g].consistentAmount <=>
                    \A r \in M : 10 * Abs(Abs(AmountOf(r)) * n - sum) < max)
    /\ AmountNearAvg(50 * Scale, 108 * Scale, 2)
    /\ AmountNearAvg(58 * Scale, 108 * Scale, 2)

\* A consistent group of three with a member more than 30% from the average.
C10_Witness ==
    \E g \in 1..Len(locals.subGroups) :
    \E M \in {Members(locals.subGroups[g].norm)} :
    \E n \in {Cardinality(M)}, sum \in {SumOfAmounts(M)} :
        /\ n = 3
        /\ locals.subGroups[g].consistentAmount
        /\ \E r \in M : 10 * Abs(Abs(AmountOf(r)) * n - sum) >= 3 * sum

----------------------------------------------------------------------------
(* Properties of the reported list                                         *)

\* The charges among C whose grouping key is key
MembersIn(C, key) == {r \in C : KeyOf(r) = key}

\* The keys of at least 3 characters among the charges C
KeysIn(C) == {key \in {KeyOf(r) : r \in C} : Len(key) >= 3}

\* The group of key qualifies: at least 2 members, each within max(0.3 * avg,
\* 10) of the mean, newest and oldest more than 5 days apart, mean above 1
QualifiesIn(C, key) ==
    \A M \in {MembersIn(C, key)} :
    \A n \in {Cardinality(M)}, sum \in {SumOfAmounts(M)} :
        /\ n >= 2
        /\ \A r \in M :
              10 * Abs(Abs(AmountOf(r)) * n - sum)
                  < (IF 3 * sum > 100 * Scale * n THEN 3 * sum ELSE 100 * Scale * n)
        /\ SpreadOverFiveDays(M)
        /\ sum > n * Scale

QualifyingIn(C) == {key \in KeysIn(C) : QualifiesIn(C, key)}

\* The place in input order of the first member of the group of key
FirstSeen(C, key) ==
    CHOOSE i \in {FlatIndex(r) : r \in MembersIn(C, key)} :
        \A r \in MembersIn(C, key) : i <= FlatIndex(r)

\* a < b, a = b on means [num, den]
MeanLess(a, b) == a.num * b.den < b.num * a.den
MeanEqual(a, b) == a.num * b.den = b.num * a.den

\* C11: the reported list has at most 20 entries, one per qualifying group
\* and as many as there are of them up to 20; it is in descending order of
\* amount, entries of equal amount keeping the order they had before the
\* sort (higher count first, then the group met first in the input); and
\* every qualifying group left out has an amount no greater than that of
\* every reported entry.
C11_TopTwenty ==
    \A C \in {Charges} :
    \A Q \in {QualifyingIn(C)} :
        LET S == stats.subscriptions
            R == {S[i].norm : i \in 1..Len(S)}
        IN  /\ Len(S) <= 20
            /\ Len(S) = (IF Cardinality(Q) < 20 THEN Cardinality(Q) ELSE 20)
            /\ R \subseteq Q
            /\ Cardinality(R) = Len(S)
            /\ \A i, j \in 1..Len(S) :
                  i < j =>
                    \/ MeanLess(S[j].amount, S[i].amount)
                    \/ /\ MeanEqual(S[j].amount, S[i].amount)
                       /\ \/ S[i].count > S[j].count
                          \/ /\ S[i].count = S[j].count
                             /\ FirstSeen(C, S[i].norm) < FirstSeen(C, S[j].norm)
            /\ \A key \in Q \ R :
               \A M \in {MembersIn(C, key)} :
               \A i \in 1..Len(S) :
                  SumOfAmounts(M) * S[i].amount.den
                      <= S[i].amount.num * Cardinality(M)

\* More than 20 groups qualify and one does not; 20 are reported, two of
\* them with the same amount and different counts.
C11_Witness ==
    /\ Len(stats.subscriptions) = 20
    /\ Cardinality({g \in 1..Len(locals.subGroups) : locals.subGroups[g].pushed}) > 20
    /\ \E g \in 1..Len(locals.subGroups) : ~locals.subGroups[g].pushed
    /\ \E i \in 1..19 :
          /\ MeanEqual(stats.subscriptions[i].amount, stats.subscriptions[i + 1].amount)
          /\ stats.subscriptions[i].count > stats.subscriptions[i + 1].count

\* C12: every reported subscription has a count of at least 2, and its count
\* is the number of transactions of the snapshot that have a negative amount,
\* are not transfers and have the subscription's grouping key.
C12_MinimumSupport ==
    \A C \in {Charges} :
    \A i \in 1..Len(stats.subscriptions) :
        /\ stats.subscriptions[i].count >= 2
        /\ stats.subscriptions[i].count
              = Cardinality(MembersIn(C, stats.subscriptions[i].norm))

\* A subscription reported with count 2 whose key is also that of a third
\* negative transaction, a transfer.
C12_Witness ==
    \E i \in 1..Len(stats.subscriptions) :
        /\ stats.subscriptions[i].count = 2
        /\ \E r \in TxRefs :
              /\ AmountOf(r) < 0
              /\ Flagged(r)
              /\ KeyOf(r) = stats.subscriptions[i].norm

----------------------------------------------------------------------------
(* Properties of the grouping key                                          *)

\* The maximal runs of the letters a-z in str, in order
RECURSIVE LetterRuns(_, _)
LetterRuns(str, run) ==
    IF str = <<>> THEN (IF run = <<>> THEN <<>> ELSE <<run>>)
    ELSE IF Head(str) \in LowerLetters
         THEN LetterRuns(Tail(str), Append(run, Head(str)))
         ELSE (IF run = <<>> THEN <<>> ELSE <<run>>) \o LetterRuns(Tail(str), <<>>)

\* The first two of the words longer than 2 that are not stopwords, with a
\* space between them
FirstTwoWords(words) ==
    LET kept == SelectSeq(words, LAMBDA w : Len(w) > 2 /\ w \notin {KW_the, KW_inc, KW_com, KW_payment})
    IN  IF kept = <<>> THEN <<>>
        ELSE IF Len(kept) = 1 THEN kept[1]
        ELSE kept[1] \o <<" ">> \o kept[2]

\* The key when every character other than a-z and whitespace separates words
KeyByReplacing(d) == FirstTwoWords(LetterRuns(ToLowerCase(d), <<>>))

\* The key when every character other than a-z and whitespace is deleted
KeyByDeleting(d) == FirstTwoWords(LetterRuns(ToLowerCase(WithoutMarks(d)), <<>>))

\* The groups that hold transaction r
GroupsHolding(r) ==
    {locals.subGroups[g].norm : g \in
        {h \in 1..Len(locals.subGroups) :
            \E k \in 1..Len(locals.subGroups[h].transactions) :
                /\ locals.subGroups[h].transactions[k].id = TxAt(r).id
                /\ locals.subGroups[h].transactions[k].accountId = Accounts[r[1]].id}}

\* Every charge is in the group of its key when the key has at least 3
\* characters, and in no group otherwise: with the key by replacing ...
PlacedByReplacing ==
    \A r \in Charges :
    \A key \in {KeyByReplacing(TxAt(r).description)} :
        GroupsHolding(r) = (IF Len(key) >= 3 THEN {key} ELSE {})

\* ... and with the key by deleting
PlacedByDeleting ==
    \A r \in Charges :
    \A key \in {KeyByDeleting(TxAt(r).description)} :
        GroupsHolding(r) = (IF Len(key) >= 3 THEN {key} ELSE {})

\* C13 as amended: the grouping key of a description is obtained by
\* lowercasing it, replacing every character other than a-z and whitespace by
\* a space, collapsing whitespace, trimming, splitting into words, dropping
\* words of length <= 2 and the stopwords {the, inc, com, payment}, and
\* joining the first two remaining words with a space (the words are the
\* maximal runs of letters); two descriptions that differ only in digits or
\* punctuation that no letter separates from whitespace or from an end of the
\* description get the same key; a transaction whose key is shorter than 3
\* characters is placed in no group.
C13_KeyByReplacing ==
    Loaded =>
        /\ PlacedByReplacing
        /\ GroupsHolding(<<1, 1>>) = GroupsHolding(<<1, 3>>)

\* A digit between two letters splits a word in two: the description has
\* one key as it is and another without its digits and punctuation.
C13_Witness ==
    /\ Loaded
    /\ GroupsHolding(<<1, 1>>) # {}
    /\ GroupsHolding(<<1, 2>>) # {}
    /\ GroupsHolding(<<1, 1>>) # GroupsHolding(<<1, 2>>)
    /\ TxAt(<<1, 3>>).description # TxAt(<<1, 1>>).description

\* C13 as stated: the characters that are not letters or spaces are deleted,
\* and two descriptions that differ only in digits or punctuation get the
\* same key.
C13_KeyByDeleting ==
    Loaded =>
        /\ PlacedByDeleting
        /\ GroupsHolding(<<1, 1>>) = GroupsHolding(<<1, 2>>)

----------------------------------------------------------------------------
(* Properties of the reported description                                  *)

\* The member of M with the greatest normalized timestamp and, among those
\* with that timestamp, the first in input order
MostRecent(M) ==
    CHOOSE r \in M :
        \A o \in M :
            \/ ~SecondsGeq(PostedOf(o), PostedOf(r))
            \/ /\ PostedOf(o) = PostedOf(r)
               /\ FlatIndex(r) <= FlatIndex(o)

\* C14: the description of a reported subscription is the description, as
\* it came in the snapshot, of the member of its group with the greatest
\* normalized timestamp, and of the first such member in input order
\* (accounts in order, then transactions in order) when several share it.
C14_MostRecentDescription ==
    \A C \in {Charges} :
    \A i \in 1..Len(stats.subscriptions) :
        stats.subscriptions[i].desc
            = TxAt(MostRecent(MembersIn(C, stats.subscriptions[i].norm))).description

\* Two members of a reported group share the greatest timestamp and have
\* different descriptions, and the one reported comes later in its own
\* account's list than the other does in its own.
C14_Witness ==
    \E i \in 1..Len(stats.subscriptions) :
    \E r, o \in Members(stats.subscriptions[i].norm) :
        /\ r = MostRecent(Members(stats.subscriptions[i].norm))
        /\ PostedOf(o) = PostedOf(r)
        /\ r[1] < o[1]
        /\ r[2] > o[2]
        /\ TxAt(o).description # TxAt(r).description
        /\ stats.subscriptions[i].desc # NormOf(stats.subscriptions[i].desc)

----------------------------------------------------------------------------
(* Properties of the account classification                                *)

\* The types in the order they are tried, each with its keywords
TypeOrder ==
    <<[type |-> "Checking", words |-> {KW_checking, KW_spending}],
      [type |-> "Savings", words |-> {KW_savings, KW_reserve}],
      [type |-> "Credit Card", words |-> {KW_credit, KW_card, KW_visa, KW_amex, KW_mastercard}],
      [type |-> "Investment", words |-> {KW_investment, KW_brokerage, KW_ira, KW_401k}]>>

\* w occurs in str
Occurs(str, w) == \E i \in 1..(Len(str) - Len(w) + 1) : SubSeq(str, i, i + Len(w) - 1) = w

\* The types one of whose keywords occurs in name, whatever the case of its letters
MatchingTypes(name) ==
    {k \in 1..Len(TypeOrder) : \E w \in TypeOrder[k].words : Occurs(ToLowerCase(name), w)}

EarliestType(name) ==
    IF MatchingTypes(name) = {} THEN "Other"
    ELSE TypeOrder[CHOOSE k \in MatchingTypes(name) : \A m \in MatchingTypes(name) : k <= m].type

N_VisaChecking == <<"V","i","s","a"," ","C","h","e","c","k","i","n","g">>
N_SavingsCard == <<"S","a","v","i","n","g","s"," ","C","a","r","d">>

\* C15: getAccountType gives every account name one of the five types: the
\* earliest, in the order Checking, Savings, Credit Card, Investment, of the
\* types a keyword of which occurs in the name without regard to case, and
\* Other when none does; a name and the same name in the opposite case get
\* the same type; 'Visa Checking' is Checking and 'Savings Card' is Savings.
C15_FirstMatchingType ==
    /\ \A a \in 1..Len(locals.types) :
          /\ locals.types[a] \in {"Checking", "Savings", "Credit Card", "Investment", "Other"}
          /\ locals.types[a] = EarliestType(locals.json.accounts[a].name)
    /\ Len(locals.types) = 2 => locals.types[1] = locals.types[2]
    /\ getAccountType(N_VisaChecking) = "Checking"
    /\ getAccountType(N_SavingsCard) = "Savings"

\* A name with a savings keyword after a credit-card keyword, in mixed case,
\* is Savings, and so is the name in the opposite case.
C15_Witness ==
    /\ Loaded
    /\ Len(locals.types) = 2
    /\ Cardinality(MatchingTypes(Accounts[1].name)) >= 2
    /\ 1 \notin MatchingTypes(Accounts[1].name)
    /\ Accounts[1].name # ToLowerCase(Accounts[1].name)
    /\ Accounts[2].name # Accounts[1].name
    /\ locals.types = <<"Savings", "Savings">>

----------------------------------------------------------------------------
(* Properties of the timestamp normalization                               *)

\* The instant, in seconds, of a posted value k * 1000 + r: the value
\* divided by 1000 when it is greater than 2,000,000,000, the value otherwise
Instant(p) ==
    IF p.k > 2000000 \/ (p.k = 2000000 /\ p.r > 0)
    THEN [s |-> p.k, ms |-> p.r]
    ELSE [s |-> p.k * 1000 + p.r, ms |-> 0]

\* A posted value of whole thousands above 2,000,000,000, divided by 1000
WrittenInSeconds(p) ==
    IF p.k > 2000000 /\ p.r = 0 THEN [k |-> p.k \div 1000, r |-> p.k % 1000] ELSE p

\* The snapshot d with every such posted value written in seconds
InSeconds(d) ==
    [accounts |->
        [a \in 1..Len(d.accounts) |->
            [d.accounts[a] EXCEPT !.transactions =
                [j \in 1..Len(@) |-> [@[j] EXCEPT !.posted = WrittenInSeconds(@)]]]]]

\* C16: the timestamp used for a transaction is posted / 1000 when posted >
\* 2,000,000,000 and posted itself otherwise, 2,000,000,000 included; and the
\* report (30-day spending, subscriptions) and the transfer verdicts are
\* those of the snapshot in which the timestamps given in milliseconds are
\* given in seconds: posted = 1700000000000 and posted = 1700000000 are one
\* instant.
C16_PostedNormalized ==
    /\ \A r \in TxRefs :
          locals.allTransactions[FlatIndex(r)].posted = Instant(TxAt(r).posted)
    /\ Loaded =>
          \A other \in {ComputeStats(InSeconds(locals.json), now)} :
              /\ other.stats = stats
              /\ other.locals.transfer = locals.transfer
    /\ NormalizePosted(StampMillis) = NormalizePosted(StampSeconds)

\* A charge posted at 1700000000 and a credit posted at 1700000000000 are
\* flagged as each other's transfer, and a charge posted at 2000000000 is
\* counted in the 30-day spending.
C16_Witness ==
    /\ \E r, o \in TxRefs :
          /\ TxAt(r).posted = StampSeconds
          /\ TxAt(o).posted = StampMillis
          /\ AmountOf(r) < 0 /\ AmountOf(o) > 0
          /\ Flagged(r) /\ Flagged(o)
    /\ \E r \in TxRefs :
          /\ TxAt(r).posted = StampAtThreshold
          /\ ~Flagged(r)
    /\ stats.spending30d = 100 * Scale
    /\ InSeconds(locals.json) # locals.json

----------------------------------------------------------------------------
(* Properties of running the computation again                             *)

\* Date.now() of another run on the same snapshot: 1 ms before and 1 ms
\* after the time at which the oldest transactions are exactly 30 days old
ClockBeforeEdge == [k |-> 1764246399, r |-> 999]
RerunClocks == {ClockBeforeEdge, ClockPastEdge}

\* The report of a run on the snapshot handed in, Date.now() being clock
RunAt(clock) == ComputeStats(locals.json, [s |-> clock.k, ms |-> clock.r]).stats

\* The debits without a counterpart posted at or after 30 days before clock
CountedAt(clock) ==
    {r \in TxRefs :
        /\ AmountOf(r) < 0
        /\ ~\E o \in TxRefs : Counterpart(r, o)
        /\ SecondsGeq(PostedOf(r), [s |-> clock.k - 30 * 86400, ms |-> clock.r])}

\* C17 as amended: a second run on the same snapshot gives the same
\* netWorth, assets, liabilities and subscriptions whenever it happens, and
\* the same spending30d and spendingByAccount when the debits that are not
\* transfers and are posted within 30 days of the run are the same for both
\* runs, as they are when both runs read the same time.
C17_SameReportAgain ==
    Loaded =>
        \A clock \in RerunClocks :
        \A again \in {RunAt(clock)} :
            /\ again.netWorth = stats.netWorth
            /\ again.assets = stats.assets
            /\ again.liabilities = stats.liabilities
            /\ again.subscriptions = stats.subscriptions
            /\ CountedAt(clock) = CountedAt([k |-> now.s, r |-> now.ms]) =>
                  /\ again.spending30d = stats.spending30d
                  /\ again.spendingByAccount = stats.spendingByAccount

\* A debit posted exactly 30 days before the run is counted, and is counted
\* again by a run 1 ms earlier; a run at the same time as the first gives
\* the same report.
C17_Witness ==
    /\ Loaded
    /\ now = [s |-> ClockAtEdge.k, ms |-> ClockAtEdge.r]
    /\ \E r \in CountedAt(ClockAtEdge) : r \notin CountedAt(ClockPastEdge)
    /\ CountedAt(ClockBeforeEdge) = CountedAt(ClockAtEdge)
    /\ RunAt(ClockBeforeEdge) = stats
    /\ RunAt(ClockAtEdge) = stats
    /\ stats.spending30d > 0

\* C17 as stated: a second run on the same snapshot gives the same report,
\* whenever it happens.
C17_Idempotence ==
    Loaded => \A clock \in RerunClocks : RunAt(clock) = stats

----------------------------------------------------------------------------
(* Properties of the snapshot after the computation                        *)

----------------------------------------------------------------------------
(* Properties of transfer flagging across and within accounts              *)

\* r is a debit of the amount of the credit c, posted less than 3 days from
\* it; the two are told apart by their ids
DebitOf(c, r) ==
    /\ AmountOf(c) > 0
    /\ AmountOf(r) = -AmountOf(c)
    /\ TxAt(r).id # TxAt(c).id
    /\ AbsDiffMillis(PostedOf(r), PostedOf(c)) < 259200 * 1000

\* C19: a transaction of amount +X flags every other transaction (one with
\* another id) of amount -X posted less than 3 days from it, in its own
\* account as in any other and however many there are, and is flagged
\* itself as soon as there is one.
C19_PairwiseExistence ==
    \A c, r \in TxRefs :
        DebitOf(c, r) => Flagged(r) /\ Flagged(c)

\* One credit flags two debits, one in its own account and one in another.
C19_Witness ==
    \E c, r, o \in TxRefs :
        /\ Cardinality({x \in TxRefs : AmountOf(x) > 0}) = 1
        /\ DebitOf(c, r) /\ DebitOf(c, o)
        /\ r[1] = c[1]
        /\ o[1] # c[1]
        /\ Flagged(r) /\ Flagged(o) /\ Flagged(c)

\* The debits that are not flagged
Unflagged == {r \in TxRefs : AmountOf(r) < 0 /\ ~Flagged(r)}

\* C20 as amended: a transfer pair consists of two transactions with
\* different ids from the same account or from different accounts; a
\* transaction is flagged exactly when a counterpart (opposite amount to
\* within 0.001, another id, less than 3 days away) exists in its own or in
\* another account, and a flagged transaction is in no subscription group
\* and adds nothing to spending30d.
C20_AnyAccount ==
    /\ \A r \in TxRefs :
          /\ Flagged(r) <=>
                \/ \E o \in TxRefs : o[1] = r[1] /\ Counterpart(r, o)
                \/ \E o \in TxRefs : o[1] # r[1] /\ Counterpart(r, o)
          /\ Flagged(r) => GroupsHolding(r) = {}
    /\ stats.spending30d
          = SumFn([r \in {x \in Unflagged : SecondsGeq(PostedOf(x), ThirtyDaysAgo)} |->
                      Abs(AmountOf(r))])

\* A debit whose only counterpart is in its own account is flagged and left
\* out, beside a debit that is counted.
C20_Witness ==
    /\ \E r \in TxRefs :
          /\ AmountOf(r) < 0
          /\ Flagged(r)
          /\ \A o \in TxRefs : Counterpart(r, o) => o[1] = r[1]
    /\ stats.spending30d > 0

\* C20 as stated: a transaction is flagged as a transfer only when a
\* counterpart of it belongs to a different account.
C20_DifferentAccounts ==
    \A r \in TxRefs :
        Flagged(r) => \E o \in TxRefs : Accounts[o[1]].id # Accounts[r[1]].id /\ Counterpart(r, o)

----------------------------------------------------------------------------
(* Properties of empty and sparse input                                    *)

ZeroReport ==
    [netWorth |-> 0, assets |-> 0, liabilities |-> 0, spending30d |-> 0,
     spendingByAccount |-> <<>>, subscriptions |-> <<>>]

\* The accounts whose transactions array is missing or empty
Bare == {a \in 1..Len(Accounts) :
            \/ "transactions" \notin DOMAIN Accounts[a]
            \/ Accounts[a].transactions = <<>>}

\* C21: with no data loaded, and for a snapshot without accounts, the report
\* is netWorth 0, assets 0, liabilities 0, spending30d 0, no spending by
\* account and no subscriptions; an account whose transactions array is
\* missing or empty contributes no transaction, and the report is computed
\* all the same.
C21_EmptyInput ==
    /\ ~Loaded => stats = ZeroReport
    /\ Loaded /\ Accounts = <<>> => stats = ZeroReport
    /\ DOMAIN stats = DOMAIN ZeroReport
    /\ Loaded =>
          /\ \A a \in Bare : \A i \in DOMAIN locals.allTransactions :
                locals.allTransactions[i].accountId # Accounts[a].id
          /\ Len(locals.allTransactions)
                = SumFn([a \in (1..Len(Accounts)) \ Bare |-> Len(Accounts[a].transactions)])
          /\ stats.netWorth = SumFn([a \in OtherIndexes |-> BalanceAt(a)])
                                 - SumFn([a \in CardIndexes |-> Abs(BalanceAt(a))])
          /\ Bare = 1..Len(Accounts) =>
                /\ stats.spending30d = 0
                /\ stats.spendingByAccount = <<>>
                /\ stats.subscriptions = <<>>

\* A snapshot with an account without a transactions array, one with an
\* empty array and one with transactions, reported with a subscription.
C21_Witness ==
    /\ Loaded
    /\ \E a \in 1..Len(Accounts) : "transactions" \notin DOMAIN Accounts[a]
    /\ \E a \in 1..Len(Accounts) :
          "transactions" \in DOMAIN Accounts[a] /\ Accounts[a].transactions = <<>>
    /\ stats.subscriptions # <<>>
    /\ stats.netWorth > 0

\* C22: every subscription group holds only transactions of strictly
\* negative amount, so the mean the percentage test divides by is strictly
\* positive; and no group whose mean is at most 1 is reported.
C22_MeanNeverZero ==
    /\ \A g \in DOMAIN locals.subGroups :
          /\ locals.subGroups[g].transactions # <<>>
          /\ \A k \in DOMAIN locals.subGroups[g].transactions :
                parseFloat(locals.subGroups[g].transactions[k].amount) < 0
          /\ locals.subGroups[g].avg.den > 0
          /\ locals.subGroups[g].avg.num > 0
          /\ locals.subGroups[g].pushed =>
                locals.subGroups[g].avg.num > Scale * locals.subGroups[g].avg.den
    /\ \A i \in DOMAIN stats.subscriptions :
          stats.subscriptions[i].amount.num > Scale * stats.subscriptions[i].amount.den

\* A transaction of amount -0.00 beside a group of near, spread amounts whose
\* mean is below 1 and which is not reported.
C22_Witness ==
    /\ \E r \in TxRefs : AmountOf(r) = 0 /\ TxAt(r).amount.neg /\ GroupsHolding(r) = {}
    /\ \E g \in DOMAIN locals.subGroups :
          /\ locals.subGroups[g].consistentAmount
          /\ locals.subGroups[g].hasTimeSpread
          /\ locals.subGroups[g].avg.num < Scale * locals.subGroups[g].avg.den
          /\ ~locals.subGroups[g].pushed
    /\ stats.subscriptions = <<>>

----------------------------------------------------------------------------
(* The second App (App.tsx 557-1132): its analytics block, 728-838, written *)
(* down from its text as sums, filters and rankings over the snapshot       *)

\* getAccountType of the second file (589-596)
SecondAccountType(name) ==
    LET n == ToLowerCase(name)
        any(kws) == \E kw \in kws : Includes(n, kw)
    IN  CASE any({KW_checking, KW_spending}) -> "Checking"
          [] ~any({KW_checking, KW_spending}) /\ any({KW_savings, KW_reserve}) -> "Savings"
          [] ~any({KW_checking, KW_spending, KW_savings, KW_reserve})
             /\ any({KW_credit, KW_card, KW_visa, KW_amex, KW_mastercard}) -> "Credit Card"
          [] ~any({KW_checking, KW_spending, KW_savings, KW_reserve, KW_credit, KW_card,
                   KW_visa, KW_amex, KW_mastercard})
             /\ any({KW_investment, KW_brokerage, KW_ira, KW_401k}) -> "Investment"
          [] OTHER -> "Other"

SecondTypeCache == [n \in AccountNames |-> SecondAccountType(n)]

\* allTransactions (740-752): entry i is transaction j of account a, the
\* accounts in order and the transactions of each in order
SecondAllTransactions(d) ==
    LET txsOf(a) == IF "transactions" \in DOMAIN d.accounts[a]
                    THEN d.accounts[a].transactions ELSE <<>>
        before(a) == SumFn([b \in 1..(a - 1) |-> Len(txsOf(b))])
        total == before(Len(d.accounts) + 1)
        accountAt(i) == CHOOSE a \in 1..Len(d.accounts) :
                            before(a) < i /\ i <= before(a) + Len(txsOf(a))
    IN  [i \in 1..total |->
            LET a == accountAt(i)
                t == txsOf(a)[i - before(a)]
                \* t.posted > 2000000000, on posted = k * 1000 + r
                millis == \/ t.posted.k > 2000000
                          \/ t.posted.k = 2000000 /\ t.posted.r > 0
            IN  [id |-> t.id, amount |-> t.amount, description |-> t.description,
                 posted |-> IF millis THEN [s |-> t.posted.k, ms |-> t.posted.r]
                            ELSE [s |-> t.posted.k * 1000 + t.posted.r, ms |-> 0],
                 accountId |-> d.accounts[a].id,
                 amountNum |-> parseFloat(t.amount),
                 accountName |-> d.accounts[a].name]]

\* The forEach over data.accounts (754-767)
SecondBalances(d) ==
    LET all == 1..Len(d.accounts)
        type(a) == IF d.accounts[a].name \in DOMAIN SecondTypeCache
                   THEN SecondTypeCache[d.accounts[a].name]
                   ELSE SecondAccountType(d.accounts[a].name)
        bal(a) == parseFloat(d.accounts[a].balance)
        cards == {a \in all : type(a) = "Credit Card"}
        others == all \ cards
    IN  [netWorth |-> SumFn([a \in others |-> bal(a)]) - SumFn([a \in cards |-> Abs(bal(a))]),
         assets |-> SumFn([a \in {o \in others : bal(o) > 0} |-> bal(a)]),
         liabilities |-> SumFn([a \in cards |-> Abs(bal(a))])
                         + SumFn([a \in {o \in others : bal(o) <= 0} |-> Abs(bal(a))])]

\* isTransfer (769-775) of entry i of all
SecondIsTransfer(all, i) ==
    \E o \in 1..Len(all) :
        /\ all[o].id # all[i].id
        /\ Abs(all[o].amountNum + all[i].amountNum) < Scale \div 1000
        /\ AbsDiffMillis(all[o].posted, all[i].posted) < 259200 * 1000

\* The entries that pass amt < 0 && !isTransfer(t) (783, 788)
SecondCharges(all) ==
    {i \in 1..Len(all) : all[i].amountNum < 0 /\ ~SecondIsTransfer(all, i)}

\* spending30d and spendingByAccount (781-786)
SecondSpending(all, nw) ==
    LET monthAgo == [s |-> nw.s - 30 * 24 * 60 * 60, ms |-> nw.ms]
        spent == {i \in SecondCharges(all) :
                     \/ all[i].posted.s > monthAgo.s
                     \/ all[i].posted.s = monthAgo.s /\ all[i].posted.ms >= monthAgo.ms}
    IN  [spending30d |-> SumFn([i \in spent |-> Abs(all[i].amountNum)]),
         spendingByAccount |->
            [n \in {all[i].accountName : i \in spent} |->
                SumFn([i \in {j \in spent : all[j].accountName = n} |->
                          Abs(all[i].amountNum)])]]

\* norm (789-794)
SecondNormOf(description) ==
    LET cleanDesc == Trim(CollapseSpaces(BlankNonLetters(ToLowerCase(description))))
        pieces == Split(cleanDesc, <<>>)
        kept == SelectSeq(pieces, LAMBDA w :
                    Len(w) > 2 /\ w \notin {KW_the, KW_inc, KW_com, KW_payment})
    IN  IF kept = <<>> THEN <<>>
        ELSE IF Len(kept) = 1 THEN kept[1]
        ELSE kept[1] \o <<" ">> \o kept[2]

SecondNormCache == [d \in Descriptions |-> SecondNormOf(d)]

SecondNorm(description) ==
    IF description \in DOMAIN SecondNormCache THEN SecondNormCache[description]
    ELSE SecondNormOf(description)

\* The transactions of all at the positions P, latest posted first, those
\* posted at the same time in the order of their positions (801)
SecondNewestFirst(all, P) ==
    LET later(i, j) == \/ all[i].posted.s > all[j].posted.s
                       \/ all[i].posted.s = all[j].posted.s
                          /\ all[i].posted.ms > all[j].posted.ms
        rank(i) == 1 + Cardinality({j \in P : later(j, i) \/ (~later(i, j) /\ j < i)})
    IN  [k \in 1..Cardinality(P) |-> all[CHOOSE i \in P : rank(i) = k]]

\* The entry pushed for the group of positions P (802-817), or none
SecondCandidate(all, P, norm) ==
    LET txs == SecondNewestFirst(all, P)
        n == Len(txs)
        sum == SumFn([k \in 1..n |-> Abs(txs[k].amountNum)])
        near(x) == \/ sum # 0 /\ 10 * Abs(x * n - sum) < 3 * sum
                   \/ Abs(x * n - sum) < 10 * Scale * n
    IN  IF /\ n >= 2
           /\ \A k \in 1..n : near(Abs(txs[k].amountNum))
           /\ AbsDiffMillis(txs[1].posted, txs[n].posted) > 5 * 24 * 60 * 60 * 1000
           /\ sum > Scale * n
        THEN <<[desc |-> txs[1].description, amount |-> [num |-> sum, den |-> n],
                count |-> n, norm |-> norm]>>
        ELSE <<>>

\* rawSubscriptions (798-818): the groups in the order their keys were first
\* met (Object.entries), each with its entry or none
SecondRawSubscriptions(all) ==
    LET charges == SecondCharges(all)
        key(i) == SecondNorm(all[i].description)
        grouped == {i \in charges : Len(key(i)) >= 3}
        firsts == {i \in grouped : \A j \in grouped : key(j) = key(i) => i <= j}
        nth(k) == CHOOSE i \in firsts : Cardinality({j \in firsts : j < i}) = k - 1
        entry(k) == SecondCandidate(all, {j \in grouped : key(j) = key(nth(k))},
                                    key(nth(k)))
        pushed == {k \in 1..Cardinality(firsts) : entry(k) # <<>>}
        kth(m) == CHOOSE k \in pushed : Cardinality({j \in pushed : j < k}) = m - 1
    IN  [m \in 1..Cardinality(pushed) |-> entry(kth(m))[1]]

\* .sort((a, b) => b.count - a.count) and the seenNorms pass (820-827)
SecondSubscriptions(raw) ==
    LET P == 1..Len(raw)
        rank(i) == 1 + Cardinality({j \in P : raw[j].count > raw[i].count
                                              \/ (raw[j].count = raw[i].count /\ j < i)})
        sorted == [k \in P |-> raw[CHOOSE i \in P : rank(i) = k]]
        fresh == {k \in P : \A j \in 1..(k - 1) : sorted[j].norm # sorted[k].norm}
        kth(m) == CHOOSE k \in fresh : Cardinality({j \in fresh : j < k}) = m - 1
    IN  [m \in 1..Cardinality(fresh) |-> sorted[kth(m)]]

\* .sort((a, b) => b.amount - a.amount).slice(0, 20) (835)
SecondTop(subs) ==
    LET P == 1..Len(subs)
        more(i, j) == subs[i].amount.num * subs[j].amount.den
                         > subs[j].amount.num * subs[i].amount.den
        rank(i) == 1 + Cardinality({j \in P : more(j, i) \/ (~more(i, j) /\ j < i)})
        sorted == [k \in P |-> subs[CHOOSE i \in P : rank(i) = k]]
    IN  [k \in {j \in P : j <= 20} |-> sorted[k]]

\* The value of the useMemo of the second App for data d read at clock nw
SecondStats(d, nw) ==
    IF d = NoData
    THEN [netWorth |-> 0, assets |-> 0, liabilities |-> 0, spending30d |-> 0,
          spendingByAccount |-> <<>>, subscriptions |-> <<>>]
    ELSE LET all == SecondAllTransactions(d)
             balances == SecondBalances(d)
             spending == SecondSpending(all, nw)
         IN  [netWorth |-> balances.netWorth,
              assets |-> balances.assets,
              liabilities |-> balances.liabilities,
              spending30d |-> spending.spending30d,
              spendingByAccount |-> spending.spendingByAccount,
              subscriptions |->
                 SecondTop(SecondSubscriptions(SecondRawSubscriptions(all)))]

\* C23: for every snapshot and every clock the analytics block of the second
\* App yields the report of the first: the same netWorth, assets,
\* liabilities, spending30d, spendingByAccount and subscriptions.
C23_SameReport == SecondStats(locals.json, now) = stats

\* A report with liabilities, spending, a transfer left out and a
\* subscription, on which the two agree.
C23_Witness ==
    /\ Loaded
    /\ stats.liabilities > 0
    /\ stats.spending30d > 0
    /\ stats.subscriptions # <<>>
    /\ \E r \in TxRefs : Flagged(r) /\ AmountOf(r) < 0
    /\ SecondStats(data, now).subscriptions = stats.subscriptions

----------------------------------------------------------------------------
(* Properties of group membership                                          *)

\* The members of the group of key, as transactions of the snapshot
HeldBy(key) == {r \in TxRefs : key \in GroupsHolding(r)}

\* C24: a transaction flagged as a transfer, and a transaction whose amount
\* is not negative, is a member of no subscription group: it is not
\* counted, not averaged, and its description is not reported.  Every other
\* transaction with a key of at least 3 characters is a member of the group
\* of its key, whether or not it was posted within the last 30 days.
C24_NoTransferNoCredit ==
    /\ \A r \in TxRefs : (Flagged(r) \/ AmountOf(r) >= 0) => GroupsHolding(r) = {}
    /\ \A r \in TxRefs :
          (~Flagged(r) /\ AmountOf(r) < 0 /\ Len(KeyOf(r)) >= 3)
              => GroupsHolding(r) = {KeyOf(r)}
    /\ \A g \in DOMAIN locals.subGroups :
       \A M \in {HeldBy(locals.subGroups[g].norm)} :
          /\ \A r \in M : ~Flagged(r) /\ AmountOf(r) < 0
          /\ Len(locals.subGroups[g].transactions) = Cardinality(M)
          /\ locals.subGroups[g].avg.den = Cardinality(M)
          /\ locals.subGroups[g].avg.num = SumFn([r \in M |-> -AmountOf(r)])
    /\ \A i \in DOMAIN stats.subscriptions :
       \A M \in {HeldBy(stats.subscriptions[i].norm)} :
          /\ stats.subscriptions[i].count = Cardinality(M)
          /\ \E r \in M : stats.subscriptions[i].desc = TxAt(r).description

\* A charge posted more than 30 days ago that is a member of a group and not
\* part of the spending, beside a flagged charge and a credit of the same
\* description that are in no group.
C24_Witness ==
    /\ \E r \in TxRefs :
          /\ GroupsHolding(r) # {}
          /\ ~SecondsGeq(PostedOf(r), ThirtyDaysAgo)
    /\ \E r \in TxRefs : AmountOf(r) < 0 /\ Flagged(r) /\ GroupsHolding(r) = {}
    /\ \E r \in TxRefs : AmountOf(r) > 0 /\ GroupsHolding(r) = {}
    /\ stats.spending30d = 0

----------------------------------------------------------------------------
(* Properties of the de-duplication                                        *)

Range(seq) == {seq[i] : i \in DOMAIN seq}

\* C25: the reported subscriptions have pairwise distinct keys, and the
\* seenNorms pass removes nothing: the entries before the cut are the
\* entries pushed, one for each qualifying group and no other.
C25_NothingRemoved ==
    /\ \A i, j \in DOMAIN stats.subscriptions :
          i # j => stats.subscriptions[i].norm # stats.subscriptions[j].norm
    /\ \A i, j \in DOMAIN locals.subscriptions :
          i # j => locals.subscriptions[i].norm # locals.subscriptions[j].norm
    /\ Len(locals.subscriptions) = Len(locals.rawSubscriptions)
    /\ Range(locals.subscriptions) = Range(locals.rawSubscriptions)
    /\ {sub.norm : sub \in Range(locals.subscriptions)} = QualifyingIn(Charges)
    /\ Range(stats.subscriptions) \subseteq Range(locals.subscriptions)

\* More than 20 qualifying groups, several of them of the same size: all
\* of them are there before the cut, and 20 are reported.
C25_Witness ==
    /\ Len(locals.rawSubscriptions) > MaxSubscriptions
    /\ Len(locals.subscriptions) = Len(locals.rawSubscriptions)
    /\ \E i, j \in DOMAIN locals.subscriptions :
          i # j /\ locals.subscriptions[i].count = locals.subscriptions[j].count
    /\ Len(stats.subscriptions) = MaxSubscriptions

----------------------------------------------------------------------------
(* Properties of the session                                               *)

\* C26: the access URL in memory is the stored one when the component is
\* constructed, is set together with the stored one when a token is claimed,
\* and is removed together with it by logout: after every handler the two
\* are equal, and right after logout accessUrl is null, nothing is stored
\* and data is null.
C26_SessionLifecycle ==
    /\ accessUrl = localStorage
    /\ event = "claimed" => accessUrl \in Urls
    /\ event = "logout" => accessUrl = Null /\ localStorage = Null /\ data = NoData

\* Right after the logout of a session that had been opened by a stored or
\* claimed access URL, with its fetch still waiting.
C26_Witness ==
    /\ event = "logout"
    /\ loggedOut
    /\ accessUrl = Null /\ localStorage = Null /\ data = NoData
    /\ \E i \in DOMAIN fetches : fetches[i].source \in Urls

\* Where a loaded snapshot came from
Origin(d) == IF d = DummyData THEN "demo" ELSE d.accounts[1].id

\* C27: whenever data is loaded, it is the answer to the fetch made for the
\* current access URL: a fetch that was waiting at logout does not load its
\* data after the logout, and the data of an older session does not replace
\* that of a newer one.
C27_DataOfCurrentSession ==
    data # NoData =>
        /\ ~EffectReturns(accessUrl, search)
        /\ Origin(data) = SourceOf(accessUrl, search)

\* C28: after logout without env configuration, until the next successful
\* login, the login view is displayed and no fetch is started, also when the
\* page was opened with ?demo=true.
C28_NoAutoLogin ==
    loggedOut =>
        /\ LoginView
        /\ \A i \in DOMAIN fetches : ~fetches[i].loggedOut

\* C29: a login that fails leaves accessUrl, the stored access URL and data
\* as they were, sets a non-empty error and sets loading to false; a submit
\* with an empty setup token sends no request and changes nothing.
C29_FailedLogin ==
    [][/\ event' = "claimFailed" =>
             /\ accessUrl' = accessUrl
             /\ localStorage' = localStorage
             /\ data' = data
             /\ error' # ""
             /\ loading' = FALSE
       /\ (event' = "submit" /\ setupToken = "") =>
             UNCHANGED <<data, stats, accessUrl, localStorage, search, setupToken,
                         loading, error, claims, fetches>>]_vars

\* A claim answered with a status other than 200 and no error text, in the
\* login view, nothing stored.
C29_Witness ==
    /\ event = "claimFailed"
    /\ error = "Failed to claim token"
    /\ ~loading
    /\ accessUrl = Null /\ localStorage = Null
    /\ setupToken # ""

----------------------------------------------------------------------------
(* Properties of the server side                                           *)

\* C30: every POST /api/claim and GET /api/accounts gets exactly one
\* response, from the Netlify functions and from the Vite middleware,
\* whether the upstream answers 200, answers another status or fails; with
\* no access URL /api/accounts answers 401 and with no setup token
\* /api/claim answers 400, in both cases without a request to the upstream.
C30_OneResponse ==
    /\ request.pc = "none" \/ Len(request.responses) <= 1
    /\ request.pc = "done" =>
          /\ Len(request.responses) = 1
          /\ (request.api = "accounts" /\ TargetUrl(request.input) = Null) =>
                request.responses[1].statusCode = 401 /\ ~request.contacted
          /\ (request.api = "claim" /\ request.input # NotJson
              /\ "setupToken" \notin DOMAIN request.input) =>
                request.responses[1].statusCode = 400 /\ ~request.contacted

=============================================================================
